---------------------------- MODULE Spec2Model ----------------------------
(***************************************************************************)
(* smbput: host resolution (resolve.go), server-address parsing and        *)
(* remote-path helpers (main.go).                                          *)
(*                                                                         *)
(* Conventions.                                                            *)
(*   - A Go string is a sequence of one-character strings.                 *)
(*   - A net.IP is a sequence of bytes (0..255) of length 4 or 16; the nil *)
(*     net.IP is the empty sequence.                                       *)
(*   - Time is counted in ticks of 500 ms from the entry of resolveHost.   *)
(***************************************************************************)
EXTENDS Integers, Sequences, FiniteSets, TLC

VARIABLES
    \* ---- harness of the pure functions (uniqueIPs, splitServerAddress)
    fn,             \* the function that has been applied ("idle": none yet)
    arg,            \* the input the function is applied to
    res,            \* its result (<<>> before the call)
    \* ---- one resolveHost call
    pc,             \* position in resolveHost / lookupHost / lookupLLMNR
    host,           \* argument host
    timeout,        \* argument timeout (ticks)
    ctxDeadline,    \* deadline of the caller's ctx: <<t>>, or <<>> for none
    now,            \* the clock
    deadline,       \* resolveHost's local deadline (line 28)
    lastErr,        \* resolveHost's local lastErr
    llmnrTimeout,   \* resolveHost's local llmnrTimeout (line 52)
    calls,          \* log of the tier calls made so far, in order
    ret,            \* what resolveHost returned (meaningful once pc = "done")
    conn,           \* lookupLLMNR's UDP socket: "none", "open", "closed"
    sockDeadline,   \* the deadline set on conn (line 132)
    llmnrIPs,       \* lookupLLMNR's local ips (line 142)
    nread,          \* datagrams read by the current lookupLLMNR call
    opened,         \* number of sockets opened by this resolveHost call
    \* ---- one dialSession call (its address is arg, its timeout is timeout)
    dpc,            \* position in dialSession ("off": no call)
    dialed,         \* log of the TCP dials made so far, in order
    tcp,            \* the TCP connection: "none", "open", "closed"
    dret,           \* the error dialSession returned ("": nil)
    \* ---- the caller of dialSession: connect ("dial") or listShares ("list")
    cpc,            \* position in the caller ("off": no call)
    cret,           \* the error the caller returned ("": nil)
    released,       \* log of the releases made so far: "umount", "logoff", "close"
    \* ---- two concurrent resolveHost calls: the variables of "one
    \* resolveHost call" above are the locals of the running call
    other,          \* id and locals of the suspended call (id 0: there is none)
    mcast           \* the package-level llmnrIPv4Addr and llmnrIPv6Addr

pureVars == <<fn, arg, res>>
resolveVars == <<pc, host, timeout, ctxDeadline, now, deadline, lastErr,
                 llmnrTimeout, calls, ret, conn, sockDeadline, llmnrIPs,
                 nread, opened>>
dialVars == <<dpc, dialed, tcp, dret>>
connectVars == <<cpc, cret, released>>
pairVars == <<other, mcast>>
vars == <<fn, arg, res, pc, host, timeout, ctxDeadline, now, deadline, lastErr,
          llmnrTimeout, calls, ret, conn, sockDeadline, llmnrIPs, nread,
          opened, dpc, dialed, tcp, dret, cpc, cret, released, other, mcast>>

(***************************************************************************)
(* Bounds of the model.                                                    *)
(***************************************************************************)
\* longest address list given to uniqueIPs by the harness
MaxIPs == 3
\* longest address list the system resolver returns
MaxAddrs == 2
\* most answer records in one response datagram
MaxAnswers == 2
\* most datagrams one lookupLLMNR call reads before its deadline
MaxDatagrams == 2
\* most question records a response datagram carries
MaxQuestions == 2

(***************************************************************************)
(* Strings.                                                                *)
(***************************************************************************)
HasPrefix(s, p) == Len(s) >= Len(p) /\ SubSeq(s, 1, Len(p)) = p

HasSuffix(s, p) == Len(s) >= Len(p) /\ SubSeq(s, Len(s) - Len(p) + 1, Len(s)) = p

\* s[i:] of Go, i counted from 0
From(s, i) == SubSeq(s, i + 1, Len(s))

\* s[:i] of Go, i counted from 0
UpTo(s, i) == SubSeq(s, 1, i)

\* strings.IndexByte: index (from 0) of the first c in s, -1 if none
IndexByte(s, c) ==
    IF \E i \in 1..Len(s) : s[i] = c
    THEN (CHOOSE i \in 1..Len(s) : s[i] = c /\ \A j \in 1..(i - 1) : s[j] # c) - 1
    ELSE -1

\* strings.LastIndexByte
LastIndexByte(s, c) ==
    IF \E i \in 1..Len(s) : s[i] = c
    THEN (CHOOSE i \in 1..Len(s) : s[i] = c /\ \A j \in (i + 1)..Len(s) : s[j] # c) - 1
    ELSE -1

\* all sequences over S of length at most n
SeqsUpTo(S, n) == UNION {[1..k -> S] : k \in 0..n}

(***************************************************************************)
(* net.IP                                                                  *)
(***************************************************************************)
NilIP == <<>>

\* net.IPv4(a, b, c, d): the 16-byte IPv4-in-IPv6 form
IPv4(a, b, c, d) == <<0, 0, 0, 0, 0, 0, 0, 0, 0, 0, 255, 255, a, b, c, d>>

\* net.IP.To4: the 4-byte form of an IPv4 address, nil for any other
To4(ip) ==
    IF Len(ip) = 4 THEN ip
    ELSE IF Len(ip) = 16 /\ (\A i \in 1..10 : ip[i] = 0) /\ ip[11] = 255 /\ ip[12] = 255
         THEN SubSeq(ip, 13, 16)
         ELSE NilIP

\* net.IP.String, up to an injective encoding of the text: <<0>> is "<nil>",
\* <<4, a, b, c, d>> the dotted form "a.b.c.d" (printed for the 4-byte and the
\* IPv4-in-IPv6 form alike), <<6, b1..b16>> the RFC 5952 text of any other
\* 16-byte address, <<1, bytes>> the "?hex" text of a slice of another length.
IPString(ip) ==
    IF Len(ip) = 0 THEN <<0>>
    ELSE IF Len(ip) # 4 /\ Len(ip) # 16 THEN <<1>> \o ip
    ELSE IF To4(ip) # NilIP THEN <<4>> \o To4(ip)
    ELSE <<6>> \o ip

\* the digits, in the order of their values
Digits == <<"0", "1", "2", "3", "4", "5", "6", "7", "8", "9">>

LowerHex == Digits \o <<"a", "b", "c", "d", "e", "f">>

UpperHex == Digits \o <<"A", "B", "C", "D", "E", "F">>

IsDigit(c) == \E i \in 1..10 : Digits[i] = c

IsHex(c) == \E i \in 1..16 : LowerHex[i] = c \/ UpperHex[i] = c

HexVal(c) == (CHOOSE i \in 1..16 : LowerHex[i] = c \/ UpperHex[i] = c) - 1

RECURSIVE parseIPv4Loop(_, _, _, _, _)
\* the loop of netip.parseIPv4Fields behind net.ParseIP: i is the (1-based)
\* position in s, val and digLen the octet being read, fields the octets read
parseIPv4Loop(s, i, val, digLen, fields) ==
    IF i > Len(s)
    THEN IF Len(fields) < 3 THEN NilIP ELSE Append(fields, val)
    ELSE LET c == s[i] IN
         IF IsDigit(c)
         THEN IF digLen = 1 /\ val = 0 THEN NilIP
              ELSE LET v == val * 10 + HexVal(c) IN
                   IF v > 255 THEN NilIP
                   ELSE parseIPv4Loop(s, i + 1, v, digLen + 1, fields)
         ELSE IF c = "."
         THEN IF i = 1 \/ i = Len(s) \/ s[i - 1] = "." THEN NilIP
              ELSE IF Len(fields) = 3 THEN NilIP
              ELSE parseIPv4Loop(s, i + 1, 0, 0, Append(fields, val))
         ELSE NilIP

\* the four octets of a dotted IPv4 text, NilIP when s is not one
parseIPv4(s) == parseIPv4Loop(s, 1, 0, 0, <<>>)

RECURSIVE HexRun(_)
\* number of leading hexadecimal digits of s
HexRun(s) == IF s # <<>> /\ IsHex(Head(s)) THEN 1 + HexRun(Tail(s)) ELSE 0

RECURSIVE HexValue(_, _)
\* value of the hexadecimal digits s, after the value acc read so far
HexValue(s, acc) == IF s = <<>> THEN acc ELSE HexValue(Tail(s), acc * 16 + HexVal(Head(s)))

V6Fail == [ok |-> FALSE, s |-> <<>>, ip |-> <<>>, ell |-> -1]

RECURSIVE parseIPv6Loop(_, _, _)
\* the field loop of netip.parseIPv6: s is the text left, ip the bytes written
\* (i = Len(ip)), ell the byte position of "::" (-1: not seen)
parseIPv6Loop(s, ip, ell) ==
    IF Len(ip) >= 16 THEN [ok |-> TRUE, s |-> s, ip |-> ip, ell |-> ell]
    ELSE LET off == HexRun(s) IN
         IF off > 4 \/ off = 0 THEN V6Fail
         ELSE IF off < Len(s) /\ s[off + 1] = "."
         THEN IF (ell < 0 /\ Len(ip) # 12) \/ Len(ip) + 4 > 16 THEN V6Fail
              ELSE LET v4 == parseIPv4(s) IN
                   IF v4 = NilIP THEN V6Fail
                   ELSE [ok |-> TRUE, s |-> <<>>, ip |-> ip \o v4, ell |-> ell]
         ELSE LET acc == HexValue(UpTo(s, off), 0)
                  ip2 == ip \o <<acc \div 256, acc % 256>>
                  s2  == From(s, off)
              IN  IF Len(s2) = 0 THEN [ok |-> TRUE, s |-> s2, ip |-> ip2, ell |-> ell]
                  ELSE IF s2[1] # ":" \/ Len(s2) = 1 THEN V6Fail
                  ELSE IF s2[2] = ":"
                  THEN IF ell >= 0 THEN V6Fail
                       ELSE IF Len(s2) = 2
                       THEN [ok |-> TRUE, s |-> <<>>, ip |-> ip2, ell |-> Len(ip2)]
                       ELSE parseIPv6Loop(From(s2, 2), ip2, Len(ip2))
                  ELSE parseIPv6Loop(From(s2, 1), ip2, ell)

\* n zero bytes
Zeros(n) == [i \in 1..n |-> 0]

\* netip.parseIPv6 for a text without zone: the 16 bytes, NilIP on an error
parseIPv6(s) ==
    LET lead == Len(s) >= 2 /\ s[1] = ":" /\ s[2] = ":"
        s0   == IF lead THEN From(s, 2) ELSE s
        ell0 == IF lead THEN 0 ELSE -1
    IN  IF lead /\ Len(s0) = 0 THEN Zeros(16)
        ELSE LET r == parseIPv6Loop(s0, <<>>, ell0) IN
             IF ~r.ok \/ Len(r.s) # 0 THEN NilIP
             ELSE IF Len(r.ip) < 16
             THEN IF r.ell < 0 THEN NilIP
                  ELSE UpTo(r.ip, r.ell) \o Zeros(16 - Len(r.ip)) \o From(r.ip, r.ell)
             ELSE IF r.ell >= 0 THEN NilIP
             ELSE r.ip

RECURSIVE FirstSep(_)
\* netip.ParseAddr looks for the first '.', ':' or '%' of s ("" if none)
FirstSep(s) ==
    IF s = <<>> THEN ""
    ELSE IF Head(s) \in {".", ":", "%"} THEN Head(s)
    ELSE FirstSep(Tail(s))

\* net.ParseIP: the 16-byte address s spells, NilIP (nil) when s is no IP
\* literal. A text with a zone ('%') is refused: by netip.ParseAddr when the
\* zone is empty or the text is IPv4, by net.parseIP when an IPv6 zone is set.
ParseIP(s) ==
    LET sep == FirstSep(s) IN
    IF sep = "." THEN
        LET v4 == parseIPv4(s) IN
        IF v4 = NilIP THEN NilIP ELSE IPv4(v4[1], v4[2], v4[3], v4[4])
    ELSE IF sep = ":" THEN
        IF IndexByte(s, "%") >= 0 THEN NilIP ELSE parseIPv6(s)
    ELSE NilIP

(***************************************************************************)
(* uniqueIPs (resolve.go 193-211)                                          *)
(***************************************************************************)
RECURSIVE uniqueLoop(_, _, _)
\* the for loop of uniqueIPs: ips still to visit, the seen map, out so far
uniqueLoop(ips, seen, out) ==
    IF ips = <<>> THEN out
    ELSE LET ip == Head(ips)
             key == IPString(ip)
         IN  IF ip = NilIP THEN uniqueLoop(Tail(ips), seen, out)
             ELSE IF key \in seen THEN uniqueLoop(Tail(ips), seen, out)
             ELSE uniqueLoop(Tail(ips), seen \cup {key}, Append(out, ip))

\* a uniqueIPs that forgets to consult the seen map
uniqueIPs_NoDedupe(ips) == SelectSeq(ips, LAMBDA ip : ip # NilIP)

\* a uniqueIPs whose seen test is inverted: nothing is ever appended
uniqueIPs_Inverted(ips) == IF Len(ips) < 2 THEN ips ELSE <<>>

uniqueIPs(ips) == IF Len(ips) < 2 THEN ips ELSE uniqueLoop(ips, {}, <<>>)

(***************************************************************************)
(* Addresses the network and the harness draw from.                        *)
(***************************************************************************)
\* 192.168.1.1 as a 4-byte address (an A record's body)
IPa4 == <<192, 168, 1, 1>>
\* 192.168.1.1 as a 16-byte address (::ffff:192.168.1.1, what ParseIP gives)
IPa16 == IPv4(192, 168, 1, 1)
\* 192.168.1.2
IPb4 == <<192, 168, 1, 2>>
\* fe80::1
IPc6 == <<254, 128, 0, 0, 0, 0, 0, 0, 0, 0, 0, 0, 0, 0, 0, 1>>

AddrPool == {IPa4, IPa16, IPb4, IPc6}

(***************************************************************************)
(* Errors: a message and the name it is about.                             *)
(***************************************************************************)
Err(msg, name) == [msg |-> msg, name |-> name]

\* the nil error
NoErr == Err("", <<>>)

(***************************************************************************)
(* Program constants, in ticks of 500 ms.                                  *)
(***************************************************************************)
\* the timeout resolveHost falls back to: 3 s
DefaultTimeout == 6
\* the LLMNR budget resolveHost falls back to: 500 ms
MinLLMNRTimeout == 1

DotLocal == <<".", "l", "o", "c", "a", "l">>

(***************************************************************************)
(* The inputs of a resolveHost call.                                       *)
(***************************************************************************)
HostNas == <<"n", "a", "s">>
HostNasLocal == HostNas \o DotLocal
HostNasLocalLocal == HostNas \o DotLocal \o DotLocal
\* a name with a trailing dot: host + ".local" has an empty label
HostNasDot == HostNas \o <<".">>
HostIPv4 == <<"1", "0", ".", "0", ".", "0", ".", "5">>
HostIPv6 == <<"f", "e", "8", "0", ":", ":", "1">>

Hosts == {HostNas, HostNasLocal, HostNasLocalLocal, HostNasDot, HostIPv4, HostIPv6}

Timeouts == {0, 2}

\* the caller's ctx: no deadline, already expired, expiring after one tick
CtxDeadlines == {<<>>, <<0>>, <<1>>}

(***************************************************************************)
(* resolveHost (resolve.go 19-77): the pure parts.                         *)
(***************************************************************************)
\* line 20 with the literal test lost: every host goes through the tiers
IsLiteral_Never(h) == FALSE

\* line 20: net.ParseIP(host) != nil
IsLiteral(h) == ParseIP(h) # NilIP

\* lines 24-26
ClampTimeout(t) == IF t <= 0 THEN DefaultTimeout ELSE t

\* a guard that lets the suffixed tiers run for every host
SuffixGuard_Always(h) == TRUE

\* lines 43 and 62: !strings.HasSuffix(host, ".local")
SuffixGuard(h) == ~HasSuffix(h, DotLocal)

\* an update of lastErr that keeps the first error instead of the last
NextLastErr_First(old, err) == IF old = NoErr THEN err ELSE old

\* lines 37-39, 46-48, 58-60, 65-67: lastErr = err when err != nil
NextLastErr(old, err) == IF err # NoErr THEN err ELSE old

\* lines 52-55: llmnrTimeout, from the deadline and the clock t
LLMNRBudget(dl, t) == IF dl - t <= 0 THEN MinLLMNRTimeout ELSE dl - t

\* a tier order that swaps the suffixed unicast tier and the exact multicast tier
NextTier_Swapped(k, h) ==
    IF k = 1 THEN "m1"
    ELSE IF k = 3 THEN (IF SuffixGuard(h) THEN "u2" ELSE "final")
    ELSE IF k = 2 THEN (IF SuffixGuard(h) THEN "m2" ELSE "final")
    ELSE "final"

\* the tier resolveHost goes on with after tier k produced no address:
\* 1 unicast(host), 2 unicast(host+".local"), 3 LLMNR(host), 4 LLMNR(host+".local")
NextTier(k, h) ==
    IF k = 1 THEN (IF SuffixGuard(h) THEN "u2" ELSE "m1")
    ELSE IF k = 2 THEN "m1"
    ELSE IF k = 3 THEN (IF SuffixGuard(h) THEN "m2" ELSE "final")
    ELSE "final"

\* the name tier k asks for
QueryHost(k, h) == IF k \in {2, 4} THEN h \o DotLocal ELSE h

\* lines 70-76, ips being the result of line 32
FinalReturn(ips, le, h) ==
    IF Len(ips) = 0
    THEN [ips |-> <<>>,
          err |-> IF le = NoErr THEN Err("no IP addresses found for", h) ELSE le]
    ELSE [ips |-> uniqueIPs(ips), err |-> NoErr]

(***************************************************************************)
(* lookupHost (resolve.go 79-100)                                          *)
(***************************************************************************)
\* the deadline of lookupCtx (line 29): the earlier of deadline and ctx's own
LookupCtxDeadline ==
    IF ctxDeadline # <<>> /\ ctxDeadline[1] < deadline THEN ctxDeadline[1] ELSE deadline

\* line 81: ctx.Err() != nil at time t
CtxErr(t) == t >= LookupCtxDeadline

\* what net.DefaultResolver.LookupIPAddr may answer for name when it returns
\* at time t: a list of addresses, "no such host", or a timeout at the deadline
ResolverOutcomes(name, t) ==
    {[addrs |-> a, err |-> NoErr] : a \in SeqsUpTo(AddrPool \cup {NilIP}, MaxAddrs)}
    \cup {[addrs |-> <<>>, err |-> Err("no such host", name)]}
    \cup (IF t = LookupCtxDeadline
          THEN {[addrs |-> <<>>, err |-> Err("i/o timeout", name)]}
          ELSE {})

\* lines 86-99: lookupHost's result for the resolver's answer
lookupHostReturn(ipAddrs, rerr) ==
    IF rerr # NoErr THEN [ips |-> <<>>, err |-> rerr]
    ELSE LET ips == SelectSeq(ipAddrs, LAMBDA ip : ip # NilIP) IN
         IF Len(ips) = 0 THEN [ips |-> <<>>, err |-> Err("no IPs returned", <<>>)]
         ELSE [ips |-> ips, err |-> NoErr]

(***************************************************************************)
(* lookupLLMNR (resolve.go 102-191): the pure parts.                       *)
(***************************************************************************)
\* lines 103-106
LLMNRName(h) == IF HasSuffix(h, <<".">>) THEN h ELSE h \o <<".">>

\* line 121, Name.pack inside Message.Pack: the labels are walked from the
\* first dot to the last, and the first label of 64 bytes or more, or of no
\* byte, is refused; at each dot the length test comes before the empty test
PackLabelsErr(name) ==
    LET dots == {i \in 1..Len(name) : name[i] = "."}
        begin(i) == IF \E j \in dots : j < i
                    THEN (CHOOSE j \in dots : j < i /\ \A m \in dots : m < i => m <= j) + 1
                    ELSE 1
        bad == {i \in dots : i - begin(i) >= 64 \/ i - begin(i) = 0}
        first == CHOOSE i \in bad : \A j \in bad : i <= j
    IN  IF name = <<".">> \/ bad = {} THEN NoErr
        ELSE IF first - begin(first) >= 64 THEN Err("segment length too long", name)
        ELSE Err("zero length segment", name)

\* lines 109-124, dnsmessage.NewName and Message.Pack of the query: a name of
\* more than 255 bytes is refused by NewName, then the labels are checked
QueryNameErr(name) ==
    IF Len(name) > 255 THEN Err("name too long", name) ELSE PackLabelsErr(name)

\* The errors the build can give for name.  The version of the dnsmessage
\* library is not fixed by the sources: for a name of exactly 255 bytes
\* Name.pack of the recent versions refuses it as too long, the older ones
\* go on to the labels.
QueryNameErrs(name) ==
    IF Len(name) = 255 THEN {Err("name too long", name), QueryNameErr(name)}
    ELSE {QueryNameErr(name)}

\* the answer records a response may carry
AnswerRecs ==
    {[type |-> "A", ip |-> IPa4], [type |-> "A", ip |-> IPb4],
     [type |-> "AAAA", ip |-> IPa16], [type |-> "AAAA", ip |-> IPc6],
     [type |-> "CNAME", ip |-> NilIP]}

\* a received datagram: whether its header and questions are well-formed, the
\* number of its question records, its answer records
Datagrams ==
    [valid : BOOLEAN, nq : 0..MaxQuestions, answers : SeqsUpTo(AnswerRecs, MaxAnswers)]

\* dnsmessage.Parser.Start (line 157): the parser is in the question section
ParserStart == [section |-> 1, index |-> 0]

\* number of records of section sec (1 questions, 2 answers) in datagram d
SectionCount(d, sec) == IF sec = 1 THEN d.nq ELSE Len(d.answers)

\* dnsmessage.Parser.checkAdvance: a section is left only by asking it for a
\* record once all of its records are consumed
checkAdvance(p, d, sec) ==
    IF p.section < sec THEN [err |-> "ErrNotStarted", p |-> p]
    ELSE IF p.section > sec THEN [err |-> "ErrSectionDone", p |-> p]
    ELSE IF p.index = SectionCount(d, sec)
    THEN [err |-> "ErrSectionDone", p |-> [section |-> p.section + 1, index |-> 0]]
    ELSE [err |-> "", p |-> p]

\* dnsmessage.Parser.SkipQuestion (line 160)
SkipQuestion(p, d) ==
    LET r == checkAdvance(p, d, 1) IN
    IF r.err # "" THEN r ELSE [err |-> "", p |-> [r.p EXCEPT !.index = @ + 1]]

RECURSIVE answerLoop(_, _, _)
\* lines 163-183: parser.Answer() until it fails, ips the addresses appended
answerLoop(p, d, ips) ==
    LET r == checkAdvance(p, d, 2) IN
    IF r.err # "" THEN ips
    ELSE LET a == d.answers[r.p.index + 1] IN
         answerLoop([r.p EXCEPT !.index = @ + 1], d,
                    IF a.type \in {"A", "AAAA"} /\ a.ip # NilIP
                    THEN Append(ips, a.ip) ELSE ips)

\* lines 156-183: the addresses the loop body appends for datagram d
DatagramIPs(d) ==
    IF ~d.valid THEN <<>>
    ELSE LET r == SkipQuestion(ParserStart, d) IN
         IF r.err # "" THEN <<>> ELSE answerLoop(r.p, d, <<>>)

\* a return of lookupLLMNR that reports success whatever was collected
lookupLLMNRReturn_AlwaysSuccess(ips) == [ips |-> uniqueIPs(ips), err |-> NoErr]

\* lines 186-190
lookupLLMNRReturn(ips) ==
    IF Len(ips) = 0 THEN [ips |-> <<>>, err |-> Err("no LLMNR responses", <<>>)]
    ELSE [ips |-> uniqueIPs(ips), err |-> NoErr]

(***************************************************************************)
(* One resolveHost call as a state machine.  pc:                           *)
(*   "start"   before line 20                                              *)
(*   "u1"      before lookupHost(host)              (line 32)              *)
(*   "u2"      before lookupHost(host+".local")     (line 44)              *)
(*   "m1"      before lookupLLMNR(host)             (line 56)              *)
(*   "m2"      before lookupLLMNR(host+".local")    (line 63)              *)
(*   "m1read", "m2read"  in the read loop of that call (line 145)          *)
(*   "done"    returned                                                    *)
(*   "off"     no call (the pure-function harness is running)              *)
(***************************************************************************)
NoRet == [ips |-> <<>>, err |-> NoErr]

ResolveIdle(p) ==
    /\ pc = p
    /\ host = <<>>
    /\ timeout = 0
    /\ ctxDeadline = <<>>
    /\ now = 0
    /\ deadline = 0
    /\ lastErr = NoErr
    /\ llmnrTimeout = 0
    /\ calls = <<>>
    /\ ret = NoRet
    /\ conn = "none"
    /\ sockDeadline = 0
    /\ llmnrIPs = <<>>
    /\ nread = 0
    /\ opened = 0

PureIdle == fn = "idle" /\ arg = <<>> /\ res = <<>>

DialIdle(p) ==
    /\ dpc = p /\ dialed = <<>> /\ tcp = "none" /\ dret = ""
    /\ cpc \in (IF p = "off" THEN {"off"} ELSE {"dial", "list"})
    /\ cret = "" /\ released = <<>>

\* lines 14-17: the multicast groups of LLMNR, port 5355
MulticastAddrs ==
    [v4 |-> [ip |-> IPv4(224, 0, 0, 252), port |-> 5355],
     v6 |-> [ip |-> ParseIP(<<"f", "f", "0", "2", ":", ":", "1", ":", "3">>),
             port |-> 5355]]

\* the locals of a call that does not exist
NoLocals ==
    [pc |-> "off", host |-> <<>>, timeout |-> 0, ctxDeadline |-> <<>>, now |-> 0,
     deadline |-> 0, lastErr |-> NoErr, llmnrTimeout |-> 0, calls |-> <<>>,
     ret |-> NoRet, conn |-> "none", sockDeadline |-> 0, llmnrIPs |-> <<>>,
     nread |-> 0, opened |-> 0]

PairIdle == other = [id |-> 0, st |-> NoLocals, clock |-> 0] /\ mcast = MulticastAddrs

Init ==
    /\ PureIdle
    /\ DialIdle("off")
    /\ PairIdle
    /\ pc = "start"
    /\ host \in Hosts
    /\ timeout \in Timeouts
    /\ ctxDeadline \in CtxDeadlines
    /\ now = 0
    /\ deadline = 0
    /\ lastErr = NoErr
    /\ llmnrTimeout = 0
    /\ calls = <<>>
    /\ ret = NoRet
    /\ conn = "none"
    /\ sockDeadline = 0
    /\ llmnrIPs = <<>>
    /\ nread = 0
    /\ opened = 0

\* lines 19-30: the literal fast path, or the deadline and on to line 32
Enter ==
    /\ pc = "start"
    /\ IF IsLiteral(host)
       THEN /\ ret' = [ips |-> <<ParseIP(host)>>, err |-> NoErr]
            /\ pc' = "done"
            /\ deadline' = deadline
       ELSE /\ deadline' = now + ClampTimeout(timeout)
            /\ pc' = "u1"
            /\ ret' = ret
    /\ UNCHANGED <<host, timeout, ctxDeadline, now, lastErr, llmnrTimeout, calls,
                   conn, sockDeadline, llmnrIPs, nread, opened>>
    /\ UNCHANGED pureVars
    /\ UNCHANGED dialVars
    /\ UNCHANGED pairVars
    /\ UNCHANGED connectVars

\* Tier k, asked for name, returned r = [ips, err] at time now' having started
\* at time start; net tells whether it went to the network.  The call is
\* logged and resolveHost runs on to its next blocking call or to its return:
\* lines 33-39 (k = 1), 44-55 (k = 2), 56-60 (k = 3), 63-76 (k = 4).
TierReturn(k, name, r, net, start) ==
    /\ calls' = Append(calls, [tier |-> k, name |-> name, ips |-> r.ips, err |-> r.err,
                               start |-> start, end |-> now', net |-> net])
    /\ IF Len(r.ips) > 0
       THEN /\ ret' = [ips |-> uniqueIPs(r.ips), err |-> NoErr]
            /\ pc' = "done"
            /\ UNCHANGED <<lastErr, llmnrTimeout>>
       ELSE LET le  == NextLastErr(lastErr, r.err)
                nxt == NextTier(k, host)
            IN  /\ lastErr' = le
                /\ llmnrTimeout' = IF nxt = "m1" THEN LLMNRBudget(deadline, now')
                                   ELSE llmnrTimeout
                /\ IF nxt = "final"
                   THEN /\ pc' = "done"
                        /\ ret' = FinalReturn(calls'[1].ips, le, host)
                   ELSE /\ pc' = nxt
                        /\ ret' = ret

\* lookupHost(lookupCtx, name) as tier k: an expired context returns at once
\* (lines 81-83), otherwise the resolver answers no later than lookupCtx ends
LookupHostCall(k, name) ==
    /\ IF CtxErr(now)
       THEN /\ now' = now
            /\ TierReturn(k, name,
                          [ips |-> <<>>, err |-> Err("context deadline exceeded", <<>>)],
                          FALSE, now)
       ELSE \E t \in now..LookupCtxDeadline :
            \E out \in ResolverOutcomes(name, t) :
                /\ now' = t
                /\ TierReturn(k, name, lookupHostReturn(out.addrs, out.err), TRUE, now)
    /\ UNCHANGED <<host, timeout, ctxDeadline, deadline, conn, sockDeadline, llmnrIPs,
                   nread, opened>>
    /\ UNCHANGED pureVars
    /\ UNCHANGED dialVars
    /\ UNCHANGED pairVars
    /\ UNCHANGED connectVars

\* line 32
LookupHostExact == pc = "u1" /\ LookupHostCall(1, QueryHost(1, host))

\* line 44
LookupHostLocal == pc = "u2" /\ LookupHostCall(2, QueryHost(2, host))

\* the LLMNR tier pc is in or about to enter
LLMNRTier == IF pc \in {"m1", "m1read"} THEN 3 ELSE 4

\* lookupLLMNR lines 103-124: the query cannot be built, no socket is opened
LLMNRBadName ==
    /\ pc \in {"m1", "m2"}
    /\ now' = now
    /\ \E e \in QueryNameErrs(LLMNRName(QueryHost(LLMNRTier, host))) :
        /\ e # NoErr
        /\ TierReturn(LLMNRTier, QueryHost(LLMNRTier, host), [ips |-> <<>>, err |-> e],
                      FALSE, now)
    /\ UNCHANGED <<host, timeout, ctxDeadline, deadline, conn, sockDeadline, llmnrIPs,
                   nread, opened>>
    /\ UNCHANGED pureVars
    /\ UNCHANGED dialVars
    /\ UNCHANGED pairVars
    /\ UNCHANGED connectVars

\* lines 126-129: net.ListenUDP fails
LLMNRListenFails ==
    /\ pc \in {"m1", "m2"}
    /\ NoErr \in QueryNameErrs(LLMNRName(QueryHost(LLMNRTier, host)))
    /\ now' = now
    /\ TierReturn(LLMNRTier, QueryHost(LLMNRTier, host),
                  [ips |-> <<>>, err |-> Err("listen udp", <<>>)], FALSE, now)
    /\ UNCHANGED <<host, timeout, ctxDeadline, deadline, conn, sockDeadline, llmnrIPs,
                   nread, opened>>
    /\ UNCHANGED pureVars
    /\ UNCHANGED dialVars
    /\ UNCHANGED pairVars
    /\ UNCHANGED connectVars

\* a lookupLLMNR whose socket is closed on the timeout exit only
ConnAtReturn_LeakOnError(exit) == IF exit = "timeout" THEN "closed" ELSE "open"

\* line 130, defer conn.Close(): the state of the socket once lookupLLMNR has
\* returned through exit ("setup", "timeout", "read error")
ConnAtReturn(exit) == "closed"

\* net.Conn.SetDeadline: an I/O call made at time t on a socket whose
\* deadline is d fails with a timeout, without reading or sending, once the
\* deadline has come
DeadlinePassed(d, t) == d <= t

\* lines 126-138: the socket is opened, then SetDeadline or the IPv4 send
\* fails (the send always does when the deadline of line 132 has passed
\* already); the deferred Close runs before the return
LLMNRSetupFails ==
    /\ pc \in {"m1", "m2"}
    /\ NoErr \in QueryNameErrs(LLMNRName(QueryHost(LLMNRTier, host)))
    /\ now' = now
    /\ opened' = opened + 1
    /\ conn' = ConnAtReturn("setup")
    /\ \E e \in {"set deadline", "write udp"} :
        /\ sockDeadline' = IF e = "write udp" THEN now + llmnrTimeout ELSE sockDeadline
        /\ TierReturn(LLMNRTier, QueryHost(LLMNRTier, host),
                      [ips |-> <<>>, err |-> Err(e, <<>>)],
                      e = "write udp" /\ ~DeadlinePassed(now + llmnrTimeout, now), now)
    /\ UNCHANGED <<host, timeout, ctxDeadline, deadline, llmnrIPs, nread>>
    /\ UNCHANGED pureVars
    /\ UNCHANGED dialVars
    /\ UNCHANGED pairVars
    /\ UNCHANGED connectVars

\* lines 126-143: the socket is opened, its deadline set timeout from now, the
\* query sent before that deadline (the IPv6 send is best effort), and the
\* read loop entered
LLMNRSend ==
    /\ pc \in {"m1", "m2"}
    /\ ~DeadlinePassed(now + llmnrTimeout, now)
    /\ NoErr \in QueryNameErrs(LLMNRName(QueryHost(LLMNRTier, host)))
    /\ opened' = opened + 1
    /\ conn' = "open"
    /\ sockDeadline' = now + llmnrTimeout
    /\ llmnrIPs' = <<>>
    /\ nread' = 0
    /\ pc' = IF pc = "m1" THEN "m1read" ELSE "m2read"
    /\ UNCHANGED <<host, timeout, ctxDeadline, now, deadline, lastErr, llmnrTimeout,
                   calls, ret>>
    /\ UNCHANGED pureVars
    /\ UNCHANGED dialVars
    /\ UNCHANGED pairVars
    /\ UNCHANGED connectVars

\* lines 145, 156-183: a datagram arrives before the socket deadline
LLMNRReadDatagram ==
    /\ pc \in {"m1read", "m2read"}
    /\ nread < MaxDatagrams
    /\ \E got \in {DatagramIPs(d) : d \in Datagrams} :
       \E t \in now..(sockDeadline - 1) :
        /\ now' = t
        /\ llmnrIPs' = llmnrIPs \o got
    /\ nread' = nread + 1
    /\ UNCHANGED <<pc, host, timeout, ctxDeadline, deadline, lastErr, llmnrTimeout,
                   calls, ret, conn, sockDeadline, opened>>
    /\ UNCHANGED pureVars
    /\ UNCHANGED dialVars
    /\ UNCHANGED pairVars
    /\ UNCHANGED connectVars

\* a loop that reads again after a timeout
onTimeout_Continue(p) == "continue"

\* lines 147-152: what the read loop does on a timeout, at position p
onTimeout(p) == "break"

\* lines 145-152, 186-190: the read times out at the socket deadline; the
\* loop ends, the socket is closed and lookupLLMNR returns
LLMNRReadTimeout ==
    /\ pc \in {"m1read", "m2read"}
    /\ now' = IF now < sockDeadline THEN sockDeadline ELSE now
    /\ IF onTimeout(pc) = "break"
       THEN /\ conn' = ConnAtReturn("timeout")
            /\ TierReturn(LLMNRTier, QueryHost(LLMNRTier, host),
                          lookupLLMNRReturn(llmnrIPs), TRUE, sockDeadline - llmnrTimeout)
       ELSE UNCHANGED <<pc, conn, calls, ret, lastErr, llmnrTimeout>>
    /\ UNCHANGED <<host, timeout, ctxDeadline, deadline, sockDeadline, llmnrIPs, nread,
                   opened>>
    /\ UNCHANGED pureVars
    /\ UNCHANGED dialVars
    /\ UNCHANGED pairVars
    /\ UNCHANGED connectVars

\* a read loop that leaves by break on every read error, like on a timeout
readErrorReturn_Swallowed(ips, err) == lookupLLMNRReturn(ips)

\* line 153, return nil, err: what lookupLLMNR returns on a read error that
\* is no timeout, ips being what it had collected
readErrorReturn(ips, err) == [ips |-> <<>>, err |-> err]

\* lines 145-153: the read fails with an error that is no timeout
LLMNRReadError ==
    /\ pc \in {"m1read", "m2read"}
    /\ \E t \in now..sockDeadline :
        /\ now' = t
        /\ TierReturn(LLMNRTier, QueryHost(LLMNRTier, host),
                      readErrorReturn(llmnrIPs, Err("read udp", <<>>)),
                      TRUE, sockDeadline - llmnrTimeout)
    /\ conn' = ConnAtReturn("read error")
    /\ UNCHANGED <<host, timeout, ctxDeadline, deadline, sockDeadline, llmnrIPs, nread,
                   opened>>
    /\ UNCHANGED pureVars
    /\ UNCHANGED dialVars
    /\ UNCHANGED pairVars
    /\ UNCHANGED connectVars

Next ==
    \/ Enter
    \/ LookupHostExact
    \/ LookupHostLocal
    \/ LLMNRBadName
    \/ LLMNRListenFails
    \/ LLMNRSetupFails
    \/ LLMNRSend
    \/ LLMNRReadDatagram
    \/ LLMNRReadTimeout
    \/ LLMNRReadError

Spec == Init /\ [][Next]_vars

(***************************************************************************)
(* resolveHost under datagrams that never stop arriving, and under the     *)
(* scheduling the runtime gives it.  nread counts the datagrams read up to *)
(* MaxDatagrams; LLMNRReadUncounted reads the ones after that, any number  *)
(* of them, so that nothing but the socket deadline ends the loop.         *)
(***************************************************************************)
\* lines 145, 156-183: one more datagram arrives before the socket deadline,
\* after the MaxDatagrams that were counted
LLMNRReadUncounted ==
    /\ pc \in {"m1read", "m2read"}
    /\ nread = MaxDatagrams
    /\ \E got \in {DatagramIPs(d) : d \in Datagrams} :
       \E t \in now..(sockDeadline - 1) :
        /\ now' = t
        /\ llmnrIPs' = llmnrIPs \o got
    /\ UNCHANGED <<pc, host, timeout, ctxDeadline, deadline, lastErr, llmnrTimeout,
                   calls, ret, conn, sockDeadline, nread, opened>>
    /\ UNCHANGED pureVars
    /\ UNCHANGED dialVars
    /\ UNCHANGED pairVars
    /\ UNCHANGED connectVars

\* lines 103-143: lookupLLMNR runs from its entry to its first read, or to
\* the return of an error
LLMNRStart ==
    \/ LLMNRBadName
    \/ LLMNRListenFails
    \/ LLMNRSetupFails
    \/ LLMNRSend

NextLive ==
    \/ Next
    \/ LLMNRReadUncounted

\* The goroutine is scheduled: it runs on from its entry (Enter) and from
\* the entry of lookupLLMNR (LLMNRStart).  Each system-resolver lookup
\* returns (LookupHostExact, LookupHostLocal).  The clock advances, so that
\* a read that is given nothing more returns at the socket deadline
\* (LLMNRReadTimeout).  No read error and no datagram is ever required.
Fairness ==
    /\ WF_vars(Enter)
    /\ WF_vars(LookupHostExact)
    /\ WF_vars(LookupHostLocal)
    /\ WF_vars(LLMNRStart)
    /\ WF_vars(LLMNRReadTimeout)

SpecLive == Init /\ [][NextLive]_vars /\ Fairness

(***************************************************************************)
(* lookupLLMNR called with any timeout, non-positive ones included: the    *)
(* call of line 56 with llmnrTimeout drawn from LLMNRTimeouts, logged in   *)
(* calls like every tier call.                                             *)
(***************************************************************************)
\* the timeout arguments, in ticks: negative, zero, 500 ms, 1 s
LLMNRTimeouts == {-1, 0, 1, 2}

\* the host arguments; the last one has an empty label
LLMNRHosts == {HostNas, HostNasLocal, HostNasDot, HostNasDot \o DotLocal}

InitLLMNR ==
    /\ PureIdle
    /\ DialIdle("off")
    /\ PairIdle
    /\ pc = "m1"
    /\ host \in LLMNRHosts
    /\ llmnrTimeout \in LLMNRTimeouts
    /\ timeout = 0
    /\ ctxDeadline = <<>>
    /\ now = 0
    /\ deadline = 0
    /\ lastErr = NoErr
    /\ calls = <<>>
    /\ ret = NoRet
    /\ conn = "none"
    /\ sockDeadline = 0
    /\ llmnrIPs = <<>>
    /\ nread = 0
    /\ opened = 0

NextLLMNR ==
    \/ LLMNRBadName
    \/ LLMNRListenFails
    \/ LLMNRSetupFails
    \/ LLMNRSend
    \/ LLMNRReadDatagram
    \/ LLMNRReadTimeout
    \/ LLMNRReadError

SpecLLMNR == InitLLMNR /\ [][NextLLMNR]_vars

(***************************************************************************)
(* The harness of the body of the read loop (lines 156-183): it is given   *)
(* every datagram of Datagrams.                                            *)
(***************************************************************************)
InitDatagram ==
    /\ ResolveIdle("off")
    /\ DialIdle("off")
    /\ PairIdle
    /\ fn = "idle"
    /\ arg \in Datagrams
    /\ res = <<>>

\* the loop body handles the datagram arg: res is what it appends to ips
CallDatagramIPs ==
    /\ fn = "idle"
    /\ fn' = "DatagramIPs"
    /\ res' = DatagramIPs(arg)
    /\ UNCHANGED <<arg>>
    /\ UNCHANGED resolveVars
    /\ UNCHANGED dialVars
    /\ UNCHANGED pairVars
    /\ UNCHANGED connectVars

NextDatagram == CallDatagramIPs

SpecDatagram == InitDatagram /\ [][NextDatagram]_vars

(***************************************************************************)
(* Two resolveHost calls running concurrently.  Each goroutine has its own *)
(* locals; the scheduler suspends the running call and resumes the other.  *)
(* The variables pc .. opened are the locals of the running call, other.st *)
(* holds those of the suspended one.  In the locals of a call, now is the  *)
(* time at which the call last read the clock: for a call that waits in    *)
(* LookupIPAddr or in conn.ReadFrom it is the time at which the wait       *)
(* began.  The clock of the process (time.Now) is one for both calls and   *)
(* never runs backwards: it is the later of now and other.clock, the clock *)
(* at the last switch.  A call that waits returns no later than the        *)
(* deadline of its wait, so the clock does not pass that deadline before   *)
(* the call has returned.  The package-level multicast addresses mcast are *)
(* the only variables of the program both calls reach.                     *)
(***************************************************************************)
\* the locals of the running call
Locals ==
    [pc |-> pc, host |-> host, timeout |-> timeout, ctxDeadline |-> ctxDeadline,
     now |-> now, deadline |-> deadline, lastErr |-> lastErr,
     llmnrTimeout |-> llmnrTimeout, calls |-> calls, ret |-> ret, conn |-> conn,
     sockDeadline |-> sockDeadline, llmnrIPs |-> llmnrIPs, nread |-> nread,
     opened |-> opened]

\* the locals of a call at its entry
Entry(h, t, c) == [NoLocals EXCEPT !.pc = "start", !.host = h, !.timeout = t,
                                  !.ctxDeadline = c]

\* the hosts of the first and of the second call
PairHostsFirst == {HostNasDot, HostIPv4}
PairHostsSecond == {HostNasLocal}

\* the clock of the process
Clock == IF other.clock > now THEN other.clock ELSE now

\* the deadline of the lookupCtx of the call with the locals st (line 29)
LookupCtxDeadlineOf(st) ==
    IF st.ctxDeadline # <<>> /\ st.ctxDeadline[1] < st.deadline
    THEN st.ctxDeadline[1] ELSE st.deadline

\* the call with the locals st waits: in LookupIPAddr (line 85, reached
\* when ctx.Err() was nil at line 81) or in conn.ReadFrom (line 145)
Waiting(st) ==
    \/ st.pc \in {"u1", "u2"} /\ st.now < LookupCtxDeadlineOf(st)
    \/ st.pc \in {"m1read", "m2read"}

\* the time by which the wait of the call with the locals st is over
WaitDeadline(st) ==
    IF st.pc \in {"u1", "u2"} THEN LookupCtxDeadlineOf(st) ELSE st.sockDeadline

\* a lookupLLMNR whose conn is a package-level variable: the call that
\* resumes finds the socket of the running call there
Resume_SharedSocket(saved, running, clock) ==
    [saved EXCEPT !.now = IF Waiting(saved) THEN saved.now ELSE clock,
                  !.conn = running.conn]

\* resolveHost and lookupLLMNR keep deadline, lastErr, llmnrTimeout, conn and
\* ips in locals (lines 28, 31, 52, 126, 142): the call that resumes finds
\* its own locals as it left them, whatever the running call did.  A call
\* that was not waiting reads the clock of the process at its next step
\* (time.Now, lines 28 and 132; ctx.Err, line 81); a call that was waiting
\* is still in the wait it began at its own now.
Resume(saved, running, clock) ==
    [saved EXCEPT !.now = IF Waiting(saved) THEN saved.now ELSE clock]

InitPair ==
    /\ PureIdle
    /\ DialIdle("off")
    /\ mcast = MulticastAddrs
    /\ \E h \in PairHostsFirst :
          /\ pc = Entry(h, 2, <<1>>).pc
          /\ host = Entry(h, 2, <<1>>).host
          /\ timeout = Entry(h, 2, <<1>>).timeout
          /\ ctxDeadline = Entry(h, 2, <<1>>).ctxDeadline
    /\ now = 0
    /\ deadline = 0
    /\ lastErr = NoErr
    /\ llmnrTimeout = 0
    /\ calls = <<>>
    /\ ret = NoRet
    /\ conn = "none"
    /\ sockDeadline = 0
    /\ llmnrIPs = <<>>
    /\ nread = 0
    /\ opened = 0
    /\ \E h \in PairHostsSecond :
          other = [id |-> 2, st |-> Entry(h, 2, <<1>>), clock |-> 0]

\* the running call is suspended and the other call resumed
Switch ==
    /\ other.id # 0
    /\ other.st.pc # "done"
    /\ other' = [id |-> 3 - other.id, st |-> Locals, clock |-> Clock]
    /\ LET r == Resume(other.st, Locals, Clock) IN
        /\ pc' = r.pc
        /\ host' = r.host
        /\ timeout' = r.timeout
        /\ ctxDeadline' = r.ctxDeadline
        /\ now' = r.now
        /\ deadline' = r.deadline
        /\ lastErr' = r.lastErr
        /\ llmnrTimeout' = r.llmnrTimeout
        /\ calls' = r.calls
        /\ ret' = r.ret
        /\ conn' = r.conn
        /\ sockDeadline' = r.sockDeadline
        /\ llmnrIPs' = r.llmnrIPs
        /\ nread' = r.nread
        /\ opened' = r.opened
    /\ UNCHANGED mcast
    /\ UNCHANGED pureVars
    /\ UNCHANGED dialVars
    /\ UNCHANGED connectVars

\* a step of the running call: it happens at the clock of the process or
\* later, and no later than the wait of the suspended call is over
PairStep ==
    /\ Next
    /\ now' >= Clock
    /\ Waiting(other.st) => now' <= WaitDeadline(other.st)

NextPair == PairStep \/ Switch

SpecPair == InitPair /\ [][NextPair]_vars

(***************************************************************************)
(* The harness of uniqueIPs: every list of at most MaxIPs addresses, nil   *)
(* included, is given to it.                                               *)
(***************************************************************************)
InitUnique ==
    /\ ResolveIdle("off")
    /\ DialIdle("off")
    /\ PairIdle
    /\ fn = "idle"
    /\ arg \in SeqsUpTo(AddrPool \cup {NilIP}, MaxIPs)
    /\ res = <<>>

CallUniqueIPs ==
    /\ fn = "idle"
    /\ fn' = "uniqueIPs"
    /\ res' = uniqueIPs(arg)
    /\ UNCHANGED <<arg>>
    /\ UNCHANGED resolveVars
    /\ UNCHANGED dialVars
    /\ UNCHANGED pairVars
    /\ UNCHANGED connectVars

NextUnique == CallUniqueIPs

SpecUnique == InitUnique /\ [][NextUnique]_vars

(***************************************************************************)
(* Vocabulary of the properties.                                           *)
(***************************************************************************)
\* resolveHost has returned
Returned == pc = "done"

\* tier k has been called
Attempted(k) == \E i \in 1..Len(calls) : calls[i].tier = k

\* tier k is one of the tiers of host h: the suffixed tiers 2 and 4 exist only
\* for a host that does not end in ".local"
Applicable(k, h) == k \in {1, 3} \/ ~HasSuffix(h, DotLocal)

\* every tier called before tier k produced no address
EarlierAllEmpty(k) ==
    \A i \in 1..Len(calls) : calls[i].tier < k => Len(calls[i].ips) = 0

RECURSIVE Concat(_)
\* the concatenation of a sequence of sequences
Concat(ss) == IF ss = <<>> THEN <<>> ELSE Head(ss) \o Concat(Tail(ss))

\* the indices of s holding the first occurrence of an address, by its string
FirstIdx(s) ==
    {i \in 1..Len(s) :
        s[i] # NilIP /\ \A j \in 1..(i - 1) : IPString(s[j]) # IPString(s[i])}

\* the subsequence of s made of the first occurrence of each distinct address
FirstOccurrences(s) ==
    LET I == FirstIdx(s)
        nth(n) == CHOOSE i \in I : Cardinality({j \in I : j < i}) = n - 1
    IN  [n \in 1..Cardinality(I) |-> s[nth(n)]]

\* no two elements of s have the same string
NoDuplicates(s) ==
    \A i, j \in 1..Len(s) : i # j => IPString(s[i]) # IPString(s[j])

\* no element of s is nil
NoNil(s) == \A i \in 1..Len(s) : s[i] # NilIP

(***************************************************************************)
(* Properties of resolveHost (specification Spec).                         *)
(***************************************************************************)
\* C1: resolveHost never returns an empty address list together with a nil
\* error: the list has at least one address or the error is non-nil.
C1_NeverEmptySuccess == Returned => (Len(ret.ips) > 0 \/ ret.err # NoErr)

\* all four tiers ran and failed, and the call returned an error
C1_Witness ==
    /\ Returned
    /\ Len(calls) = 4
    /\ ret.ips = <<>>
    /\ ret.err # NoErr

\* C2 (as claimed): whatever tiers run, resolveHost returns no later than the
\* deadline computed at its entry, and no tier waits on the network past it
\* (the socket of an LLMNR tier never has a deadline later than it).
C2_BoundedByDeadline ==
    /\ (Returned /\ ~IsLiteral(host)) => now <= deadline
    /\ conn = "open" => sockDeadline <= deadline

\* C3 (as claimed): the tiers are called in the order 1, 2, 3, 4, one after the
\* other, and at the return each of the four tiers has been called if and only
\* if every tier called before it produced no address.
C3_Original ==
    /\ \A i, j \in 1..Len(calls) :
          i < j => calls[i].tier < calls[j].tier /\ calls[i].end <= calls[j].start
    /\ (Returned /\ ~IsLiteral(host)) =>
          \A k \in 1..4 : Attempted(k) <=> EarlierAllEmpty(k)

\* C3 (amended): the tiers are called in the order 1, 2, 3, 4, one after the
\* other; at the return a tier of the host (the suffixed tiers being tiers of
\* the host only when it does not end in ".local") has been called if and only
\* if every tier called before it produced no address, no other tier has been
\* called, an error of a tier stops nothing, and the first tier that yields an
\* address is the last one called and its addresses are the result.
C3_TierOrder ==
    /\ \A i, j \in 1..Len(calls) :
          i < j => calls[i].tier < calls[j].tier /\ calls[i].end <= calls[j].start
    /\ (Returned /\ ~IsLiteral(host)) =>
          /\ \A k \in 1..4 :
                Attempted(k) <=> (Applicable(k, host) /\ EarlierAllEmpty(k))
          /\ \A i \in 1..Len(calls) :
                Len(calls[i].ips) > 0 =>
                    /\ i = Len(calls)
                    /\ ret = [ips |-> uniqueIPs(calls[i].ips), err |-> NoErr]

\* the exact unicast tier failed with an error and the suffixed unicast tier
\* then yielded an address, which ended the call
C3_Witness ==
    /\ Returned
    /\ Len(calls) = 2
    /\ calls[1].err # NoErr
    /\ calls[2].tier = 2
    /\ Len(calls[2].ips) > 0
    /\ ret.err = NoErr

\* C4: for a host that is an IP literal resolveHost returns exactly that
\* address with a nil error, calls neither lookupHost nor lookupLLMNR, opens
\* no socket and spends no time, whatever the timeout and the context.
C4_LiteralNoNetwork ==
    ParseIP(host) # NilIP =>
        /\ calls = <<>>
        /\ opened = 0
        /\ conn = "none"
        /\ pc \in {"start", "done"}
        /\ Returned => (ret = [ips |-> <<ParseIP(host)>>, err |-> NoErr] /\ now = 0)

\* an IPv6 literal was resolved under a context that had already expired
C4_Witness ==
    /\ Returned
    /\ host = HostIPv6
    /\ ctxDeadline = <<0>>
    /\ ret.ips = <<IPc6>>

\* C5 (as claimed): for a host ending in ".local" only the two exact tiers
\* run, and no tier is ever asked for a name ending in ".local.local".
C5_Original ==
    /\ HasSuffix(host, DotLocal) =>
          (Len(calls) <= 2 /\ \A i \in 1..Len(calls) : calls[i].tier \in {1, 3})
    /\ \A i \in 1..Len(calls) : ~HasSuffix(calls[i].name, DotLocal \o DotLocal)

\* C5 (amended): for a host ending in ".local" only the two exact tiers run,
\* so ".local" is never appended to such a host: a tier is asked for a name
\* ending in ".local.local" only when it is an exact tier and the host itself
\* ends in ".local.local".
C5_SuffixGuard ==
    /\ HasSuffix(host, DotLocal) =>
          (Len(calls) <= 2 /\ \A i \in 1..Len(calls) : calls[i].tier \in {1, 3})
    /\ \A i \in 1..Len(calls) :
          /\ calls[i].name = QueryHost(calls[i].tier, host)
          /\ HasSuffix(calls[i].name, DotLocal \o DotLocal) =>
                (calls[i].tier \in {1, 3} /\ HasSuffix(host, DotLocal \o DotLocal))

\* a host ending in ".local" went through its two tiers, both exact, and failed
C5_Witness ==
    /\ Returned
    /\ host = HostNasLocal
    /\ Len(calls) = 2
    /\ calls[1].name = HostNasLocal
    /\ calls[2].tier = 3
    /\ calls[2].name = HostNasLocal

\* C6: when no tier produced an address the call fails with the error of the
\* last tier that reported one; the generic "no IP addresses found" error is
\* returned only when no tier reported an error.
C6_LastCause ==
    (Returned /\ ~IsLiteral(host) /\ Len(ret.ips) = 0) =>
        /\ ret.err # NoErr
        /\ \A i \in 1..Len(calls) :
              (calls[i].err # NoErr /\ \A j \in (i + 1)..Len(calls) : calls[j].err = NoErr)
                  => ret.err = calls[i].err
        /\ ret.err.msg = "no IP addresses found for" =>
              \A i \in 1..Len(calls) : calls[i].err = NoErr

\* four tiers failed, the first and the last with different errors
C6_Witness ==
    /\ Returned
    /\ Len(calls) = 4
    /\ ret.ips = <<>>
    /\ calls[1].err # NoErr
    /\ calls[1].err # calls[4].err
    /\ ret.err = calls[4].err

\* C7: on success the result is the deduplicated union, in first-seen order,
\* of the addresses of all the tiers called (the literal itself on the fast
\* path), without duplicate and without nil.
C7_DedupedUnion ==
    (Returned /\ ret.err = NoErr) =>
        /\ ret.ips = IF IsLiteral(host) THEN <<ParseIP(host)>>
                     ELSE FirstOccurrences(Concat([i \in 1..Len(calls) |-> calls[i].ips]))
        /\ NoDuplicates(ret.ips)
        /\ NoNil(ret.ips)

\* the second tier answered the same address twice (once in its 4-byte, once
\* in its 16-byte form) and the call returned it once
C7_Witness ==
    /\ Returned
    /\ Len(calls) = 2
    /\ calls[2].ips = <<IPa4, IPa16>>
    /\ ret.ips = <<IPa4>>
    /\ ret.err = NoErr

(***************************************************************************)
(* Properties of uniqueIPs (specification SpecUnique).                     *)
(***************************************************************************)
\* C8 (as claimed): for every input, uniqueIPs returns the subsequence made of
\* the first occurrence of each distinct address (distinct by string), in the
\* order of first occurrence.
C8_FirstOccurrences == fn = "uniqueIPs" => res = FirstOccurrences(arg)

\* C9 (as claimed): for every input, of any length, the output of uniqueIPs
\* holds no nil address.
C9_NoNilInOutput == fn = "uniqueIPs" => NoNil(res)

(***************************************************************************)
(* splitServerAddress (main.go, the listing of unnamed/part_001 289-319)   *)
(***************************************************************************)
RECURSIVE TrimLeft(_, _)
\* strings.TrimLeft: s without its leading characters of cutset
TrimLeft(s, cutset) ==
    IF s # <<>> /\ Head(s) \in cutset THEN TrimLeft(Tail(s), cutset) ELSE s

RECURSIVE TrimRight(_, _)
\* strings.TrimRight
TrimRight(s, cutset) ==
    IF s # <<>> /\ s[Len(s)] \in cutset THEN TrimRight(UpTo(s, Len(s) - 1), cutset) ELSE s

\* strings.Trim
Trim(s, cutset) == TrimRight(TrimLeft(s, cutset), cutset)

\* the port splitServerAddress falls back to
Port445 == <<"4", "4", "5">>

SplitOK(h, p) == [host |-> h, port |-> p, err |-> ""]

SplitErr(why) == [host |-> <<>>, port |-> <<>>, err |-> why]

\* net.SplitHostPort, called at line 298: err is the AddrError's Err ("": nil)
SplitHostPort(hostport) ==
    LET i == LastIndexByte(hostport, ":") IN
    IF i < 0 THEN SplitErr("missing port in address")
    ELSE LET bracketed == hostport[1] = "["
             end == IndexByte(hostport, "]")
             j == IF bracketed THEN 1 ELSE 0
             k == IF bracketed THEN end + 1 ELSE 0
             h == IF bracketed THEN SubSeq(hostport, 2, end) ELSE UpTo(hostport, i)
         IN  IF bracketed /\ end < 0 THEN SplitErr("missing ']' in address")
             ELSE IF bracketed /\ end + 1 = Len(hostport)
                  THEN SplitErr("missing port in address")
             ELSE IF bracketed /\ end + 1 # i
                  THEN IF hostport[end + 2] = ":"
                       THEN SplitErr("too many colons in address")
                       ELSE SplitErr("missing port in address")
             ELSE IF ~bracketed /\ IndexByte(h, ":") >= 0
                  THEN SplitErr("too many colons in address")
             ELSE IF IndexByte(From(hostport, j), "[") >= 0
                  THEN SplitErr("unexpected '[' in address")
             ELSE IF IndexByte(From(hostport, k), "]") >= 0
                  THEN SplitErr("unexpected ']' in address")
             ELSE SplitOK(h, From(hostport, i + 1))

\* a splitServerAddress that keeps the brackets of a bracketed host
splitServerAddress_KeepBrackets(address) ==
    IF address = <<>> THEN SplitErr("server address is required")
    ELSE IF HasPrefix(address, <<"[">>) /\ HasSuffix(address, <<"]">>)
         THEN SplitOK(address, Port445)
    ELSE LET r == SplitHostPort(address) IN
         IF r.err = "" THEN SplitOK(<<"[">> \o r.host \o <<"]">>,
                                    IF r.port = <<>> THEN Port445 ELSE r.port)
         ELSE IF r.err = "missing port in address" THEN SplitOK(address, Port445)
         ELSE IF ParseIP(address) # NilIP THEN SplitOK(address, Port445)
         ELSE SplitErr("parse server address")

\* a splitServerAddress that drops the port it was given and always answers 445
splitServerAddress_DropPort(address) ==
    IF address = <<>> THEN SplitErr("server address is required")
    ELSE IF HasPrefix(address, <<"[">>) /\ HasSuffix(address, <<"]">>)
         THEN SplitOK(Trim(address, {"[", "]"}), Port445)
    ELSE LET r == SplitHostPort(address) IN
         IF r.err = "" THEN SplitOK(r.host, Port445)
         ELSE IF r.err = "missing port in address"
              THEN IF HasPrefix(address, <<"[">>)
                   THEN SplitOK(Trim(address, {"[", "]"}), Port445)
                   ELSE SplitOK(address, Port445)
         ELSE IF ParseIP(address) # NilIP THEN SplitOK(address, Port445)
         ELSE SplitErr("parse server address")

\* a splitServerAddress without the test of lines 290-292: the empty address
\* goes on to net.SplitHostPort and comes back as host "" with port 445
splitServerAddress_AcceptEmpty(address) ==
    IF HasPrefix(address, <<"[">>) /\ HasSuffix(address, <<"]">>)
    THEN SplitOK(Trim(address, {"[", "]"}), Port445)
    ELSE LET r == SplitHostPort(address) IN
         IF r.err = "" THEN SplitOK(r.host, IF r.port = <<>> THEN Port445 ELSE r.port)
         ELSE IF r.err = "missing port in address"
              THEN IF HasPrefix(address, <<"[">>)
                   THEN SplitOK(Trim(address, {"[", "]"}), Port445)
                   ELSE SplitOK(address, Port445)
         ELSE IF ParseIP(address) # NilIP THEN SplitOK(address, Port445)
         ELSE SplitErr("parse server address")

\* splitServerAddress: [host, port, err], err = "" being the nil error
splitServerAddress(address) ==
    IF address = <<>> THEN SplitErr("server address is required")
    ELSE IF HasPrefix(address, <<"[">>) /\ HasSuffix(address, <<"]">>)
         THEN SplitOK(Trim(address, {"[", "]"}), Port445)
    ELSE LET r == SplitHostPort(address) IN
         IF r.err = "" THEN SplitOK(r.host, IF r.port = <<>> THEN Port445 ELSE r.port)
         ELSE IF r.err = "missing port in address"
              THEN IF HasPrefix(address, <<"[">>)
                   THEN SplitOK(Trim(address, {"[", "]"}), Port445)
                   ELSE SplitOK(address, Port445)
         ELSE IF ParseIP(address) # NilIP THEN SplitOK(address, Port445)
         ELSE SplitErr("parse server address")

(***************************************************************************)
(* The harness of splitServerAddress: every string of at most MaxAddrLen   *)
(* characters of AddrChars, and the inputs of TestSplitServerAddress.      *)
(***************************************************************************)
\* longest server address the harness builds from AddrChars
MaxAddrLen == 5

AddrChars == {"[", "]", ":", "a", "1"}

TestFileserver == <<"f", "i", "l", "e", "s", "e", "r", "v", "e", "r">>
TestFileserverPort == <<"f", "i", "l", "e", "s", "e", "r", "v", "e", "r", ":", "1", "4", "4", "5">>
TestIPv4 == <<"1", "9", "2", ".", "1", "6", "8", ".", "1", ".", "1", "0">>
TestIPv6 == <<"[", "2", "0", "0", "1", ":", "d", "b", "8", ":", ":", "1", "]">>
TestIPv6Port == <<"[", "2", "0", "0", "1", ":", "d", "b", "8", ":", ":", "1", "]", ":", "1", "4", "4", "5">>

TestAddresses == {TestFileserver, TestFileserverPort, TestIPv4, TestIPv6, TestIPv6Port}

InitAddr ==
    /\ ResolveIdle("off")
    /\ DialIdle("off")
    /\ PairIdle
    /\ fn = "idle"
    /\ arg \in SeqsUpTo(AddrChars, MaxAddrLen) \cup TestAddresses
    /\ res = SplitErr("")

CallSplitServerAddress ==
    /\ fn = "idle"
    /\ fn' = "splitServerAddress"
    /\ res' = splitServerAddress(arg)
    /\ UNCHANGED <<arg>>
    /\ UNCHANGED resolveVars
    /\ UNCHANGED dialVars
    /\ UNCHANGED pairVars
    /\ UNCHANGED connectVars

NextAddr == CallSplitServerAddress

SpecAddr == InitAddr /\ [][NextAddr]_vars

(***************************************************************************)
(* dialSession (main.go, the listing of unnamed/part_001 143-191): opts is  *)
(* the address arg and the timeout timeout.  Positions dpc:                *)
(*   "start"      before line 144                                          *)
(*   "resolve"    inside resolveHost (line 152), then in the loop of 159   *)
(*   "negotiate"  before dialer.Dial (line 178)                            *)
(*   "returned"   returned, with the error dret                            *)
(***************************************************************************)
\* the addresses given to dialSession: empty, a name with and without port,
\* a name with a trailing dot, the literals, and one that does not parse
DialAddresses ==
    {<<>>, HostNas, HostNas \o <<":", "1">>, HostNasDot, HostIPv4,
     <<"[">> \o HostIPv6 \o <<"]">>, <<"n", ":", "a", ":", "s">>}

InitDial ==
    /\ fn = "idle"
    /\ arg \in DialAddresses
    /\ res = SplitErr("")
    /\ pc = "off"
    /\ host = <<>>
    /\ timeout \in Timeouts
    /\ ctxDeadline = <<>>
    /\ now = 0
    /\ deadline = 0
    /\ lastErr = NoErr
    /\ llmnrTimeout = 0
    /\ calls = <<>>
    /\ ret = NoRet
    /\ conn = "none"
    /\ sockDeadline = 0
    /\ llmnrIPs = <<>>
    /\ nread = 0
    /\ opened = 0
    /\ DialIdle("start")
    /\ PairIdle

\* lines 144-152: the address is split; an error is returned at once,
\* otherwise ctx gets its timeout and resolveHost(ctx, host, timeout) is entered
DialEnter ==
    /\ dpc = "start"
    /\ fn' = "dialSession"
    /\ res' = splitServerAddress(arg)
    /\ IF res'.err # ""
       THEN /\ dpc' = "returned"
            /\ dret' = res'.err
            /\ UNCHANGED <<pc, host, ctxDeadline>>
       ELSE /\ dpc' = "resolve"
            /\ dret' = dret
            /\ pc' = "start"
            /\ host' = res'.host
            /\ ctxDeadline' = <<now + timeout>>
    /\ UNCHANGED <<arg, timeout, now, deadline, lastErr, llmnrTimeout, calls, ret,
                   conn, sockDeadline, llmnrIPs, nread, opened, dialed, tcp>>
    /\ UNCHANGED pairVars
    /\ UNCHANGED connectVars

\* lines 152-155: resolveHost returned an error
DialResolveFails ==
    /\ dpc = "resolve"
    /\ pc = "done"
    /\ ret.err # NoErr
    /\ dpc' = "returned"
    /\ dret' = "resolve host"
    /\ UNCHANGED <<dialed, tcp>>
    /\ UNCHANGED pureVars
    /\ UNCHANGED resolveVars
    /\ UNCHANGED pairVars
    /\ UNCHANGED connectVars

\* line 161 at time t: tcpDialer.DialContext(ctx, ...) can connect only
\* while ctx has not expired
CanConnect(t) == t < ctxDeadline[1]

\* the times at which a dial started now returns: no later than ctx expires
DialTimes == IF CanConnect(now) THEN now..ctxDeadline[1] ELSE {now}

\* a loop that walks ips from its last address to its first
DialTarget_Reversed(ips, n) == ips[Len(ips) - n]

\* line 159, for _, ip := range ips: the address dialed after n attempts
DialTarget(ips, n) == ips[n + 1]

\* lines 159-165: the next address of ips is dialed and connects; the loop
\* is left by the break
DialAttemptOK ==
    /\ dpc = "resolve"
    /\ pc = "done"
    /\ ret.err = NoErr
    /\ Len(dialed) < Len(ret.ips)
    /\ \E t \in DialTimes :
        /\ CanConnect(t)
        /\ now' = t
    /\ dialed' = Append(dialed, [ip |-> DialTarget(ret.ips, Len(dialed)), port |-> res.port,
                                 ok |-> TRUE])
    /\ tcp' = "open"
    /\ dpc' = "negotiate"
    /\ UNCHANGED <<dret, pc, host, timeout, ctxDeadline, deadline, lastErr,
                   llmnrTimeout, calls, ret, conn, sockDeadline, llmnrIPs, nread,
                   opened>>
    /\ UNCHANGED pureVars
    /\ UNCHANGED pairVars
    /\ UNCHANGED connectVars

\* lines 159-169: the next address of ips is dialed and does not connect;
\* after the last address the dial error is returned
DialAttemptFails ==
    /\ dpc = "resolve"
    /\ pc = "done"
    /\ ret.err = NoErr
    /\ Len(dialed) < Len(ret.ips)
    /\ \E t \in DialTimes : now' = t
    /\ dialed' = Append(dialed, [ip |-> DialTarget(ret.ips, Len(dialed)), port |-> res.port,
                                 ok |-> FALSE])
    /\ IF Len(dialed') = Len(ret.ips)
       THEN dpc' = "returned" /\ dret' = "dial"
       ELSE dpc' = dpc /\ dret' = dret
    /\ UNCHANGED <<tcp, pc, host, timeout, ctxDeadline, deadline, lastErr,
                   llmnrTimeout, calls, ret, conn, sockDeadline, llmnrIPs, nread,
                   opened>>
    /\ UNCHANGED pureVars
    /\ UNCHANGED pairVars
    /\ UNCHANGED connectVars

\* lines 166-178: control reaches dialer.Dial(conn) after a break out of
\* the loop, or after a loop over no address at all, which leaves dialErr
\* and conn both nil
AtNegotiate ==
    \/ dpc = "negotiate"
    \/ dpc = "resolve" /\ pc = "done" /\ ret.err = NoErr /\ ret.ips = <<>>

\* a cleanup that logs the session off and leaves the connection open
sessionCleanup_NoClose(log) == Append(log, "logoff")

\* lines 185-188, the cleanup dialSession returns: session.Logoff(), then
\* conn.Close()
sessionCleanup(log) == Append(Append(log, "logoff"), "close")

\* a cleanup that unmounts the share after the session has gone
connectCleanup_UmountLast(log) == Append(sessionCleanup(log), "umount")

\* lines 137-140, the cleanup connect returns: share.Umount(), then
\* dialSession's cleanup
connectCleanup(log) == sessionCleanup(Append(log, "umount"))

\* net.Conn.Close: the state of the connection after the releases of log
ConnAfter(log, c) ==
    IF \E i \in 1..Len(log) : log[i] = "close" THEN "closed" ELSE c

\* lines 178-190: the SMB session is negotiated; session and cleanup are
\* returned with a nil error, the connection staying open
DialNegotiateOK ==
    /\ AtNegotiate
    /\ dpc' = "returned"
    /\ dret' = ""
    /\ UNCHANGED <<dialed, tcp>>
    /\ UNCHANGED pureVars
    /\ UNCHANGED resolveVars
    /\ UNCHANGED pairVars
    /\ UNCHANGED connectVars

\* lines 178-182: the negotiation fails, the connection is closed
DialNegotiateFails ==
    /\ AtNegotiate
    /\ released' = Append(released, "close")
    /\ tcp' = ConnAfter(released', tcp)
    /\ dpc' = "returned"
    /\ dret' = "smb negotiate"
    /\ UNCHANGED <<dialed, cpc, cret>>
    /\ UNCHANGED pureVars
    /\ UNCHANGED resolveVars
    /\ UNCHANGED pairVars

\* lines 126-129 of connect: dialSession returned an error, which connect
\* returns as it is
ConnectDialFails ==
    /\ cpc = "dial"
    /\ dpc = "returned"
    /\ dret # ""
    /\ cpc' = "returned"
    /\ cret' = dret
    /\ UNCHANGED <<released>>
    /\ UNCHANGED pureVars
    /\ UNCHANGED resolveVars
    /\ UNCHANGED dialVars
    /\ UNCHANGED pairVars

\* lines 131, 137-140 of connect: the share is mounted; share and cleanup
\* are returned with a nil error
ConnectMountOK ==
    /\ cpc = "dial"
    /\ dpc = "returned"
    /\ dret = ""
    /\ cpc' = "returned"
    /\ cret' = ""
    /\ UNCHANGED <<released>>
    /\ UNCHANGED pureVars
    /\ UNCHANGED resolveVars
    /\ UNCHANGED dialVars
    /\ UNCHANGED pairVars

\* lines 131-135 of connect: the mount fails; dialSession's cleanup runs
\* before the error is returned
ConnectMountFails ==
    /\ cpc = "dial"
    /\ dpc = "returned"
    /\ dret = ""
    /\ released' = sessionCleanup(released)
    /\ tcp' = ConnAfter(released', tcp)
    /\ cpc' = "returned"
    /\ cret' = "mount share"
    /\ UNCHANGED <<dpc, dialed, dret>>
    /\ UNCHANGED pureVars
    /\ UNCHANGED resolveVars
    /\ UNCHANGED pairVars

\* lines 70-74 of main (and 83-87, 96-100): after a connect without error
\* the caller defers cleanup(), which runs when the command is over
ConnectCleanup ==
    /\ cpc = "returned"
    /\ cret = ""
    /\ released' = connectCleanup(released)
    /\ tcp' = ConnAfter(released', tcp)
    /\ cpc' = "cleaned"
    /\ UNCHANGED <<dpc, dialed, dret, cret>>
    /\ UNCHANGED pureVars
    /\ UNCHANGED resolveVars
    /\ UNCHANGED pairVars

\* lines 322-325 of listShares: dialSession returned an error, which
\* listShares returns as it is
ListSharesDialFails ==
    /\ cpc = "list"
    /\ dpc = "returned"
    /\ dret # ""
    /\ cpc' = "listed"
    /\ cret' = dret
    /\ UNCHANGED <<released>>
    /\ UNCHANGED pureVars
    /\ UNCHANGED resolveVars
    /\ UNCHANGED dialVars
    /\ UNCHANGED pairVars

\* lines 326-342 of listShares: the share names are listed, or the listing
\* fails; the deferred cleanup of dialSession runs at the return, and no
\* share was mounted
ListSharesReturn ==
    /\ cpc = "list"
    /\ dpc = "returned"
    /\ dret = ""
    /\ released' = sessionCleanup(released)
    /\ tcp' = ConnAfter(released', tcp)
    /\ cpc' = "listed"
    /\ cret' \in {"", "list shares"}
    /\ UNCHANGED <<dpc, dialed, dret>>
    /\ UNCHANGED pureVars
    /\ UNCHANGED resolveVars
    /\ UNCHANGED pairVars

NextDial ==
    \/ DialEnter
    \/ Next
    \/ DialResolveFails
    \/ DialAttemptOK
    \/ DialAttemptFails
    \/ DialNegotiateOK
    \/ DialNegotiateFails
    \/ ConnectDialFails
    \/ ConnectMountOK
    \/ ConnectMountFails
    \/ ConnectCleanup
    \/ ListSharesDialFails
    \/ ListSharesReturn

SpecDial == InitDial /\ [][NextDial]_vars

(***************************************************************************)
(* normalizeRemotePath (main.go 223-236, unnamed/part_001 274-287) and the *)
(* path.Clean it calls.                                                    *)
(***************************************************************************)
\* strings.ReplaceAll(s, old, new) for one-character old and new
ReplaceAll(s, old, new) == [i \in 1..Len(s) |-> IF s[i] = old THEN new ELSE s[i]]

\* strings.TrimPrefix
TrimPrefix(s, prefix) == IF HasPrefix(s, prefix) THEN From(s, Len(prefix)) ELSE s

RECURSIVE Backtrack(_, _, _)
\* path.Clean's backtracking over the last element of out: w runs down to
\* dotdot or to the '/' before that element; what remains is out[:w]
Backtrack(out, w, dotdot) ==
    IF w > dotdot /\ out[w + 1] # "/" THEN Backtrack(out, w - 1, dotdot) ELSE UpTo(out, w)

\* the index (from 0) at which the path element starting at r ends
ElementEnd(path, r) ==
    IF IndexByte(From(path, r), "/") < 0 THEN Len(path)
    ELSE r + IndexByte(From(path, r), "/")

RECURSIVE CleanLoop_KeepDotDot(_, _, _, _, _)
\* a loop of path.Clean that copies ".." like any other element
CleanLoop_KeepDotDot(path, r, out, dotdot, rooted) ==
    IF r >= Len(path) THEN out
    ELSE IF path[r + 1] = "/"
         THEN CleanLoop_KeepDotDot(path, r + 1, out, dotdot, rooted)
    ELSE IF path[r + 1] = "." /\ (r + 1 = Len(path) \/ path[r + 2] = "/")
         THEN CleanLoop_KeepDotDot(path, r + 1, out, dotdot, rooted)
    ELSE LET sep == IF (rooted /\ Len(out) # 1) \/ (~rooted /\ Len(out) # 0)
                    THEN out \o <<"/">> ELSE out
             e == ElementEnd(path, r)
         IN  CleanLoop_KeepDotDot(path, e, sep \o SubSeq(path, r + 1, e), dotdot, rooted)

RECURSIVE CleanLoop(_, _, _, _, _)
\* the loop of path.Clean: r the read index (from 0), out the written
\* prefix of the buffer, dotdot the index out cannot backtrack past
CleanLoop(path, r, out, dotdot, rooted) ==
    IF r >= Len(path) THEN out
    ELSE IF path[r + 1] = "/"
         THEN CleanLoop(path, r + 1, out, dotdot, rooted)
    ELSE IF path[r + 1] = "." /\ (r + 1 = Len(path) \/ path[r + 2] = "/")
         THEN CleanLoop(path, r + 1, out, dotdot, rooted)
    ELSE IF /\ path[r + 1] = "."
            /\ path[r + 2] = "."
            /\ (r + 2 = Len(path) \/ path[r + 3] = "/")
         THEN IF Len(out) > dotdot
              THEN CleanLoop(path, r + 2, Backtrack(out, Len(out) - 1, dotdot),
                             dotdot, rooted)
              ELSE IF ~rooted
                   THEN LET o == (IF Len(out) > 0 THEN out \o <<"/">> ELSE out)
                                 \o <<".", ".">>
                        IN  CleanLoop(path, r + 2, o, Len(o), rooted)
              ELSE CleanLoop(path, r + 2, out, dotdot, rooted)
    ELSE LET sep == IF (rooted /\ Len(out) # 1) \/ (~rooted /\ Len(out) # 0)
                    THEN out \o <<"/">> ELSE out
             e == ElementEnd(path, r)
         IN  CleanLoop(path, e, sep \o SubSeq(path, r + 1, e), dotdot, rooted)

\* path.Clean
Clean(path) ==
    IF path = <<>> THEN <<".">>
    ELSE LET rooted == path[1] = "/"
             out == IF rooted THEN CleanLoop(path, 1, <<"/">>, 1, TRUE)
                    ELSE CleanLoop(path, 0, <<>>, 0, FALSE)
         IN  IF out = <<>> THEN <<".">> ELSE out

\* a normalizeRemotePath that skips path.Clean
normalizeRemotePath_NoClean(p) ==
    IF p = <<>> THEN <<".">>
    ELSE LET q == TrimPrefix(ReplaceAll(p, "\\", "/"), <<"/">>)
             clean == <<"/">> \o q
         IN  IF clean = <<"/">> \/ clean = <<".">> THEN <<".">>
             ELSE TrimPrefix(clean, <<"/">>)

\* a normalizeRemotePath that returns the cleaned path with its leading slash
normalizeRemotePath_Rooted(p) ==
    IF p = <<>> THEN <<".">>
    ELSE LET q == TrimPrefix(ReplaceAll(p, "\\", "/"), <<"/">>)
             clean == Clean(<<"/">> \o q)
         IN  IF clean = <<"/">> \/ clean = <<".">> THEN <<".">>
             ELSE clean

\* a normalizeRemotePath that leaves backslashes alone
normalizeRemotePath_NoReplace(p) ==
    IF p = <<>> THEN <<".">>
    ELSE LET q == TrimPrefix(p, <<"/">>)
             clean == Clean(<<"/">> \o q)
         IN  IF clean = <<"/">> \/ clean = <<".">> THEN <<".">>
             ELSE TrimPrefix(clean, <<"/">>)

\* normalizeRemotePath
normalizeRemotePath(p) ==
    IF p = <<>> THEN <<".">>
    ELSE LET q == TrimPrefix(ReplaceAll(p, "\\", "/"), <<"/">>)
             clean == Clean(<<"/">> \o q)
         IN  IF clean = <<"/">> \/ clean = <<".">> THEN <<".">>
             ELSE TrimPrefix(clean, <<"/">>)

(***************************************************************************)
(* The harness of normalizeRemotePath: every string of at most MaxPathLen  *)
(* characters of PathChars and the inputs of TestNormalizeRemotePath; the  *)
(* function is applied to the input, then once more to its own result.     *)
(***************************************************************************)
\* longest remote path the harness builds from PathChars
MaxPathLen == 6

PathChars == {"a", ".", "/", "\\"}

TestUNC == <<"\\", "\\", "s", "e", "r", "v", "e", "r", "\\", "s", "h", "a", "r", "e">>
TestServerShare == <<"s", "e", "r", "v", "e", "r", "/", "s", "h", "a", "r", "e">>
TestFolderFile == <<"f", "o", "l", "d", "e", "r", "/", "f", "i", "l", "e", ".", "t", "x", "t">>
TestFolderDotFile ==
    <<"/", "f", "o", "l", "d", "e", "r", "/", ".", "/", "f", "i", "l", "e", ".", "t", "x", "t">>
TestFolderNested ==
    <<"f", "o", "l", "d", "e", "r", "\\", "n", "e", "s", "t", "e", "d", "\\">>
\* a path with more ".." than elements before them: a/../../../b/c
TestEscape == <<"a", "/", ".", ".", "/", ".", ".", "/", ".", ".", "/", "b", "/", "c">>

TestPaths == {TestUNC, TestFolderFile, TestFolderDotFile, TestFolderNested, TestEscape}

InitPath ==
    /\ ResolveIdle("off")
    /\ DialIdle("off")
    /\ PairIdle
    /\ fn = "idle"
    /\ arg \in SeqsUpTo(PathChars, MaxPathLen) \cup TestPaths
    /\ res = <<>>

\* normalizeRemotePath(arg)
CallNormalizeRemotePath ==
    /\ fn = "idle"
    /\ fn' = "normalizeRemotePath"
    /\ res' = normalizeRemotePath(arg)
    /\ UNCHANGED <<arg>>
    /\ UNCHANGED resolveVars
    /\ UNCHANGED dialVars
    /\ UNCHANGED pairVars
    /\ UNCHANGED connectVars

\* the result is normalized once more: arg becomes the first result and res
\* the second
CallNormalizeAgain ==
    /\ fn = "normalizeRemotePath"
    /\ fn' = "normalizeRemotePath again"
    /\ arg' = res
    /\ res' = normalizeRemotePath(res)
    /\ UNCHANGED resolveVars
    /\ UNCHANGED dialVars
    /\ UNCHANGED pairVars
    /\ UNCHANGED connectVars

NextPath == CallNormalizeRemotePath \/ CallNormalizeAgain

SpecPath == InitPath /\ [][NextPath]_vars

(***************************************************************************)
(* Properties of splitServerAddress (specification SpecAddr).              *)
(***************************************************************************)
\* s holds neither '[' nor ']'
NoBrackets(s) == \A i \in 1..Len(s) : s[i] \notin {"[", "]"}

\* a is "[" + addr + "]"
IsBracketed(a) == Len(a) >= 2 /\ a[1] = "[" /\ a[Len(a)] = "]"

\* the positions k of a at which a is "[" + a[2..k-1] + "]:" + a[k+2..]
BracketPortSplits(a) ==
    {k \in 2..(Len(a) - 1) : a[1] = "[" /\ a[k] = "]" /\ a[k + 1] = ":"}

\* C10 (as claimed): for every input "[" + addr + "]" the result is
\* (addr, "445"), and for every input "[" + addr + "]:" + port it is
\* (addr, port), whatever addr and port are.
C10_Original ==
    fn = "splitServerAddress" =>
        /\ IsBracketed(arg) => res = SplitOK(SubSeq(arg, 2, Len(arg) - 1), Port445)
        /\ \A k \in BracketPortSplits(arg) :
              res = SplitOK(SubSeq(arg, 2, k - 1), From(arg, k + 1))

\* C10 (amended): for every addr holding no '[' and no ']', the input
\* "[" + addr + "]" gives (addr, "445"), and for every such addr and every
\* non-empty port holding no ':', '[' or ']', the input "[" + addr + "]:" + port
\* gives (addr, port).
C10_Bracketed ==
    fn = "splitServerAddress" =>
        /\ (IsBracketed(arg) /\ NoBrackets(SubSeq(arg, 2, Len(arg) - 1))) =>
              res = SplitOK(SubSeq(arg, 2, Len(arg) - 1), Port445)
        /\ \A k \in BracketPortSplits(arg) :
              LET addr == SubSeq(arg, 2, k - 1)
                  port == From(arg, k + 1)
              IN  (NoBrackets(addr) /\ NoBrackets(port) /\ port # <<>>
                   /\ IndexByte(port, ":") < 0) =>
                      res = SplitOK(addr, port)

\* "[2001:db8::1]:1445" was split into 2001:db8::1 and 1445
C10_Witness ==
    /\ fn = "splitServerAddress"
    /\ arg = TestIPv6Port
    /\ res = SplitOK(SubSeq(TestIPv6Port, 2, 12), <<"1", "4", "4", "5">>)

\* s holds no ':', '[' or ']': a bare hostname, an IPv4 literal or a port
IsBare(s) == \A i \in 1..Len(s) : s[i] \notin {":", "[", "]"}

\* the positions k of a at which a is host + ":" + port, host and port bare
\* and the port non-empty
HostPortSplits(a) ==
    {k \in 1..(Len(a) - 1) :
        /\ a[k] = ":"
        /\ IsBare(SubSeq(a, 1, k - 1))
        /\ IsBare(SubSeq(a, k + 1, Len(a)))}

\* C11: every non-empty input without a port separator (a bare hostname or
\* an IPv4 literal: no ':', no bracket) comes back whole as host with port
\* "445", and every input host + ":" + port with a non-empty port comes back
\* as (host, port) unchanged.
C11_DefaultPort ==
    fn = "splitServerAddress" =>
        /\ (arg # <<>> /\ IsBare(arg)) => res = SplitOK(arg, Port445)
        /\ \A k \in HostPortSplits(arg) :
              res = SplitOK(SubSeq(arg, 1, k - 1), SubSeq(arg, k + 1, Len(arg)))

\* "fileserver:1445" was split into fileserver and 1445
C11_Witness ==
    /\ fn = "splitServerAddress"
    /\ arg = TestFileserverPort
    /\ HostPortSplits(arg) = {11}
    /\ res = SplitOK(TestFileserver, <<"1", "4", "4", "5">>)

\* s is a non-empty string of decimal digits
IsNumeric(s) == s # <<>> /\ \A i \in 1..Len(s) : IsDigit(s[i])

\* C12: whenever splitServerAddress succeeds, the port it returns is a
\* non-empty string of decimal digits only.
C12_NumericPort ==
    (fn = "splitServerAddress" /\ res.err = "") => IsNumeric(res.port)

(***************************************************************************)
(* Properties of dialSession (specification SpecDial).                     *)
(***************************************************************************)
\* C13: splitServerAddress on the empty string fails with an error and
\* returns no host and no port, and dialSession returns that error before
\* any resolution or dial: no resolveHost call, no socket, no TCP dial.
C13_EmptyAddress ==
    (arg = <<>> /\ dpc # "start") =>
        /\ res.err # "" /\ res.host = <<>> /\ res.port = <<>>
        /\ dpc = "returned" /\ dret = res.err
        /\ pc = "off" /\ calls = <<>> /\ opened = 0
        /\ dialed = <<>> /\ tcp = "none"

\* dialSession of the empty address has returned "server address is required"
C13_Witness ==
    /\ arg = <<>>
    /\ fn = "dialSession"
    /\ dpc = "returned"
    /\ dret = "server address is required"

(***************************************************************************)
(* Properties of normalizeRemotePath (specification SpecPath).             *)
(***************************************************************************)
\* C14: normalizeRemotePath is idempotent: normalizing a result once more
\* gives that result back.
C14_Idempotent ==
    fn = "normalizeRemotePath again" => res = arg

\* "server/share", the result for the UNC input, normalizes to itself
C14_Witness ==
    /\ fn = "normalizeRemotePath again"
    /\ arg = TestServerShare
    /\ res = TestServerShare

\* C15: for every input the result of normalizeRemotePath is never empty and
\* never starts with "/"; the inputs "", "." and "/" all give the root ".".
C15_NeverEmptyNorRooted ==
    fn # "idle" =>
        /\ res # <<>>
        /\ res[1] # "/"
        /\ arg \in {<<>>, <<".">>, <<"/">>} => res = <<".">>

\* "/" was normalized to "."
C15_Witness ==
    /\ fn = "normalizeRemotePath"
    /\ arg = <<"/">>
    /\ res = <<".">>

RECURSIVE Elements(_)
\* the elements of s between its slashes, empty ones included
Elements(s) ==
    IF IndexByte(s, "/") < 0 THEN <<s>>
    ELSE <<UpTo(s, IndexByte(s, "/"))>> \o Elements(From(s, IndexByte(s, "/") + 1))

RECURSIVE Walk(_, _)
\* the elements a walk from the share root ends at: "" and "." stay in
\* place, ".." goes up one element and stays at the root when already there
Walk(elems, at) ==
    IF elems = <<>> THEN at
    ELSE IF Head(elems) \in {<<>>, <<".">>} THEN Walk(Tail(elems), at)
    ELSE IF Head(elems) = <<".", ".">>
         THEN Walk(Tail(elems), IF at = <<>> THEN at ELSE UpTo(at, Len(at) - 1))
    ELSE Walk(Tail(elems), Append(at, Head(elems)))

RECURSIVE JoinSlash(_)
\* the elements joined by "/", the root being "."
JoinSlash(elems) ==
    IF elems = <<>> THEN <<".">>
    ELSE IF Len(elems) = 1 THEN elems[1]
    ELSE elems[1] \o <<"/">> \o JoinSlash(Tail(elems))

\* C16: a result other than the root "." has no ".", no ".." and no empty
\* element and no trailing slash; ".." never escapes above the share root:
\* the result is where the walk of the input's elements from the root ends,
\* a ".." at the root being dropped.
C16_NoDotSegments ==
    fn # "idle" =>
        /\ res # <<".">> =>
              /\ \A i \in 1..Len(Elements(res)) :
                    Elements(res)[i] \notin {<<>>, <<".">>, <<".", ".">>}
              /\ res[Len(res)] # "/"
        /\ res = JoinSlash(Walk(Elements(ReplaceAll(arg, "\\", "/")), <<>>))

\* "a/../../../b/c", with more ".." than elements before them, gave "b/c"
C16_Witness ==
    /\ fn = "normalizeRemotePath"
    /\ arg = TestEscape
    /\ res = <<"b", "/", "c">>

\* C17: backslash and forward slash are the same separator: the result for p
\* is the result for p with every backslash replaced by a forward slash, and
\* it holds no backslash; the UNC input gives "server/share" and
\* "folder\nested\" gives "folder/nested".
C17_BackslashIsSlash ==
    fn = "normalizeRemotePath" =>
        /\ res = normalizeRemotePath(ReplaceAll(arg, "\\", "/"))
        /\ \A i \in 1..Len(res) : res[i] # "\\"
        /\ arg = TestUNC => res = TestServerShare
        /\ arg = TestFolderNested => res = SubSeq(TestFolderNested, 1, 6) \o <<"/">>
                                           \o SubSeq(TestFolderNested, 8, 13)

\* "folder\nested\" was normalized to "folder/nested"
C17_Witness ==
    /\ fn = "normalizeRemotePath"
    /\ arg = TestFolderNested
    /\ \E i \in 1..Len(arg) : arg[i] = "\\"
    /\ res = ReplaceAll(SubSeq(TestFolderNested, 1, 13), "\\", "/")

(***************************************************************************)
(* Properties of lookupLLMNR's socket (specification Spec).                *)
(***************************************************************************)
\* resolveHost is inside the read loop of a lookupLLMNR call
InReadLoop == pc \in {"m1read", "m2read"}

\* the lookupLLMNR calls that have returned
LLMNRCalls == {i \in 1..Len(calls) : calls[i].tier \in {3, 4}}

\* C18: a lookupLLMNR call that opened its socket has closed it when it
\* returns, whatever the exit (set-deadline or send failure, read error,
\* timeout with or without addresses): a socket is open only inside the read
\* loop of the running call, each call opens at most one, and none is open
\* once the call has returned.
C18_SocketClosed ==
    /\ conn = "open" => InReadLoop
    /\ (opened > 0 /\ ~InReadLoop) => conn = "closed"
    /\ opened <= Cardinality(LLMNRCalls) + (IF InReadLoop THEN 1 ELSE 0)

\* resolveHost has returned after two lookupLLMNR calls that each opened a
\* socket, one left by a read error and one by the timeout, and it is closed
C18_Witness ==
    /\ pc = "done"
    /\ opened = 2
    /\ conn = "closed"
    /\ \E i \in LLMNRCalls : calls[i].err.msg = "read udp"
    /\ \E i \in LLMNRCalls : calls[i].err.msg = "no LLMNR responses"

\* the strings of the addresses of s
IPStrings(s) == {IPString(s[i]) : i \in 1..Len(s)}

\* the read loop is left by a timeout-class read error in this step: the
\* call returns, and not with the read error of line 153
TimeoutExit ==
    /\ InReadLoop
    /\ Len(calls') = Len(calls) + 1
    /\ calls'[Len(calls')].err.msg # "read udp"

\* C19: when the read loop of lookupLLMNR ends by a timeout-class read error,
\* the call returns the addresses gathered so far without error if at least
\* one was collected, and fails with "no LLMNR responses" if and only if none
\* was collected.
C19_TimeoutReturn ==
    [][TimeoutExit =>
        LET r == calls'[Len(calls')] IN
        /\ llmnrIPs # <<>> =>
              /\ r.err = NoErr
              /\ r.ips # <<>>
              /\ IPStrings(r.ips) \subseteq IPStrings(llmnrIPs)
        /\ r.err.msg = "no LLMNR responses" <=> llmnrIPs = <<>>
        /\ r.err # NoErr => r.err.msg = "no LLMNR responses"]_vars

\* a lookupLLMNR call read a datagram, was ended by the timeout at its socket
\* deadline with nothing collected, and failed with "no LLMNR responses"
C19_Witness ==
    /\ calls # <<>>
    /\ calls[Len(calls)].tier \in {3, 4}
    /\ calls[Len(calls)].err.msg = "no LLMNR responses"
    /\ calls[Len(calls)].ips = <<>>
    /\ calls[Len(calls)].end = sockDeadline
    /\ nread > 0
    /\ llmnrIPs = <<>>

(***************************************************************************)
(* Properties of concurrent resolveHost calls (specification SpecPair).    *)
(***************************************************************************)
\* the tiers of host h, in the order resolveHost calls them
TiersOf(h) == IF HasSuffix(h, DotLocal) THEN <<1, 3>> ELSE <<1, 2, 3, 4>>

\* What the call resolveHost(h) returns when it runs alone and its tiers
\* answer cs: the literal; or the addresses of the first tier that has any,
\* each once; or the error of the last tier that has one.
AloneReturn(h, cs) ==
    LET hits == {i \in 1..Len(cs) : cs[i].ips # <<>>}
        errs == {i \in 1..Len(cs) : cs[i].err # NoErr}
    IN  IF ParseIP(h) # NilIP THEN [ips |-> <<ParseIP(h)>>, err |-> NoErr]
        ELSE IF hits # {}
        THEN [ips |-> FirstOccurrences(cs[CHOOSE i \in hits : \A j \in hits : i <= j].ips),
              err |-> NoErr]
        ELSE IF errs # {}
        THEN [ips |-> <<>>, err |-> cs[CHOOSE i \in errs : \A j \in errs : j <= i].err]
        ELSE [ips |-> <<>>, err |-> Err("no IP addresses found for", h)]

\* the log of the call with the locals st is the log of a call of its own
\* host: its tiers in their order, each asked for the name of that host,
\* none after a tier that answered addresses, all of them at the return
\* unless one answered addresses
OwnLog(st) ==
    LET cs == st.calls
        ts == TiersOf(st.host)
    IN  /\ Len(cs) <= Len(ts)
        /\ \A i \in 1..Len(cs) :
              /\ cs[i].tier = ts[i]
              /\ cs[i].name = (IF ts[i] \in {2, 4} THEN st.host \o DotLocal ELSE st.host)
              /\ cs[i].ips # <<>> => i = Len(cs)
        /\ (st.pc = "done" /\ ParseIP(st.host) = NilIP) =>
              /\ cs # <<>>
              /\ Len(cs) = Len(ts) \/ cs[Len(cs)].ips # <<>>

\* the call with the locals st has at most one socket of its own per
\* lookupLLMNR call, open only inside its own read loop
OwnSocket(st) ==
    /\ st.conn = "open" <=> st.pc \in {"m1read", "m2read"}
    /\ st.opened <= Cardinality({i \in 1..Len(st.calls) : st.calls[i].tier \in {3, 4}})
                     + (IF st.pc \in {"m1read", "m2read"} THEN 1 ELSE 0)

\* the clock of the process never runs backwards
ClockMonotonic == Clock' >= Clock

\* the locals st without the time of their last reading of the clock
Timeless(st) == [st EXCEPT !.now = 0]

\* C20: two resolveHost calls running concurrently share no mutable state.
\* Under one clock and every interleaving: no step writes the package-level
\* multicast addresses; a step of the running call leaves the locals of the
\* suspended call (socket, deadline, accumulator, ...) as they were, and a
\* switch changes the locals of neither; each call has its own socket, open
\* only inside its own read loop; each call's tiers are asked for its own
\* host; and each call returns what it returns alone with the same network
\* responses.
C20_NoSharedState ==
    /\ [][/\ mcast' = mcast
          /\ ClockMonotonic
          /\ \/ other' = other
             \/ /\ other'.id = 3 - other.id
                /\ other'.st = Locals
                /\ Timeless(Locals') = Timeless(other.st)]_vars
    /\ [](/\ OwnSocket(Locals) /\ OwnSocket(other.st)
          /\ OwnLog(Locals) /\ OwnLog(other.st)
          /\ pc = "done" => ret = AloneReturn(host, calls)
          /\ other.st.pc = "done" => other.st.ret = AloneReturn(other.st.host, other.st.calls))

\* both calls are inside the read loop of a lookupLLMNR call at once, each
\* with its own open socket and its own log of responses
C20_Witness ==
    /\ other.id = 1
    /\ pc \in {"m1read", "m2read"} /\ conn = "open"
    /\ other.st.pc \in {"m1read", "m2read"} /\ other.st.conn = "open"
    /\ host # other.st.host
    /\ calls # <<>> /\ other.st.calls # <<>>

(***************************************************************************)
(* Properties of the deadline and of the context (specification Spec).     *)
(***************************************************************************)
\* C21: a tier goes to the network only if resolveHost's deadline has not
\* yet elapsed when the tier starts: every unicast lookup and every multicast
\* query that reached the network started before the deadline, and a socket
\* is open only for a query that started before it.
C21_NoTierAfterDeadline ==
    /\ \A i \in 1..Len(calls) : calls[i].net => calls[i].start < deadline
    /\ InReadLoop => sockDeadline - llmnrTimeout < deadline

\* C22: when the context or the deadline expires while a tier waits on the
\* network, the wait ends promptly: every tier call returns no later than the
\* expiry of lookupCtx (at once when it starts after it), a call that starts
\* after the expiry does not go to the network, and the multicast read loop
\* collects no datagram after the expiry.
C22_PromptOnExpiry ==
    /\ \A i \in 1..Len(calls) :
          /\ calls[i].end <= (IF calls[i].start > LookupCtxDeadline
                              THEN calls[i].start ELSE LookupCtxDeadline)
          /\ calls[i].start >= LookupCtxDeadline => ~calls[i].net
    /\ (InReadLoop /\ nread > 0) => now < LookupCtxDeadline

(***************************************************************************)
(* Properties of the read loop of lookupLLMNR (specification Spec).        *)
(***************************************************************************)
\* C23: a read error that is no timeout ends the read loop at once and is
\* what lookupLLMNR returns, without any address: the call is logged with
\* that error and an empty list, no further datagram is read, the socket is
\* closed, and resolveHost does not turn it into a success.
C23_ReadErrorSurfaced ==
    [][LLMNRReadError =>
        /\ Len(calls') = Len(calls) + 1
        /\ calls'[Len(calls')].tier = LLMNRTier
        /\ calls'[Len(calls')].ips = <<>>
        /\ calls'[Len(calls')].err = Err("read udp", <<>>)
        /\ nread' = nread
        /\ conn' = "closed"
        /\ ~InReadLoop'
        /\ pc' = "done" => (ret'.ips = <<>> /\ ret'.err # NoErr)]_vars

\* a lookupLLMNR call that had read a datagram was ended by a read error
\* before its socket deadline and returned that error
C23_Witness ==
    /\ calls # <<>>
    /\ calls[Len(calls)].tier \in {3, 4}
    /\ calls[Len(calls)].err = Err("read udp", <<>>)
    /\ calls[Len(calls)].ips = <<>>
    /\ calls[Len(calls)].end < sockDeadline
    /\ nread > 0
    /\ conn = "closed"

\* C24 (specification SpecLLMNR): lookupLLMNR itself clamps a non-positive
\* timeout to 500 ms: called with timeout <= 0, the deadline it sets on its
\* socket is 500 ms (one tick) after the call, not at or before it.
C24_ClampsItself ==
    /\ (InReadLoop /\ nread = 0 /\ llmnrTimeout <= 0) =>
           sockDeadline = now + MinLLMNRTimeout
    /\ \A i \in LLMNRCalls :
           (llmnrTimeout <= 0 /\ calls[i].err.msg = "write udp") =>
               sockDeadline = calls[i].start + MinLLMNRTimeout

RECURSIVE AddressesOf(_)
\* the addresses of the A and AAAA records among the answers, in order
AddressesOf(answers) ==
    IF answers = <<>> THEN <<>>
    ELSE (IF Head(answers).type \in {"A", "AAAA"} THEN <<Head(answers).ip>> ELSE <<>>)
         \o AddressesOf(Tail(answers))

\* C25 (specification SpecDatagram): a datagram that fails to parse adds
\* nothing, and a well-formed response, whatever number of questions it
\* echoes, adds the address of every A and AAAA answer record and nothing
\* for the other records.
C25_AnswersCollected ==
    fn = "DatagramIPs" =>
        res = (IF arg.valid THEN AddressesOf(arg.answers) ELSE <<>>)

(***************************************************************************)
(* uniqueIPs and the two forms of an IPv4 address (specification           *)
(* SpecUnique).                                                            *)
(***************************************************************************)
\* the pairs of positions of s holding the 4-byte form a.b.c.d and the
\* 16-byte form ::ffff:a.b.c.d of one address
MappedPairs(s) ==
    {p \in (1..Len(s)) \X (1..Len(s)) :
        /\ Len(s[p[1]]) = 4
        /\ Len(s[p[2]]) = 16
        /\ To4(s[p[2]]) = s[p[1]]}

\* ip is an entry of s
Holds(s, ip) == \E k \in 1..Len(s) : s[k] = ip

\* C26: uniqueIPs does not unify an IPv4 address with its
\* IPv4-mapped form: given both, both are entries of the output.
C26_Original ==
    fn = "uniqueIPs" =>
        \A p \in MappedPairs(arg) : Holds(res, arg[p[1]]) /\ Holds(res, arg[p[2]])

(***************************************************************************)
(* Properties of the dial loop of dialSession (specification SpecDial).    *)
(***************************************************************************)
\* C27: dialSession dials the resolved addresses in list order from index
\* 0, stops at the first that connects and uses that connection, dials
\* nothing after a connection, and returns a dial error only if the dial of
\* every address failed.
C27_DialInOrder ==
    /\ Len(dialed) <= Len(ret.ips)
    /\ \A i \in 1..Len(dialed) :
          /\ dialed[i].ip = ret.ips[i]
          /\ dialed[i].ok => i = Len(dialed)
    /\ tcp # "none" <=> (dialed # <<>> /\ dialed[Len(dialed)].ok)
    /\ dpc = "negotiate" => tcp = "open"
    /\ (dpc = "returned" /\ dret = "" /\ released = <<>>) => tcp = "open"
    /\ dret = "dial" <=>
          /\ dpc = "returned"
          /\ dialed # <<>>
          /\ Len(dialed) = Len(ret.ips)
          /\ \A i \in 1..Len(dialed) : ~dialed[i].ok

\* two addresses were resolved, the dial of the first failed, the dial of
\* the second connected and dialSession returned its session
C27_Witness ==
    /\ Len(ret.ips) = 2
    /\ Len(dialed) = 2
    /\ dialed[1].ip = ret.ips[1] /\ ~dialed[1].ok
    /\ dialed[2].ip = ret.ips[2] /\ dialed[2].ok
    /\ ret.ips[1] # ret.ips[2]
    /\ tcp = "open"
    /\ dpc = "returned"
    /\ dret = ""

(***************************************************************************)
(* Release of the connection by dialSession and connect                    *)
(***************************************************************************)

\* connect has returned an error
ConnectFailed == cpc = "returned" /\ cret # ""

\* C28: dialSession and connect release every connection they opened on
\* every failure path: the connection is closed when the SMB negotiation
\* fails, and the session is logged off and the connection closed when the
\* mount fails.  The cleanup connect returns unmounts, then logs off, then
\* closes.  The SMB dialer is never handed a nil connection.
C28_ConnectionsReleased ==
    /\ AtNegotiate => tcp = "open"
    /\ (dpc = "returned" /\ dret # "") => tcp # "open"
    /\ dret = "smb negotiate" => tcp = "closed" /\ released = <<"close">>
    /\ ConnectFailed => tcp # "open"
    /\ (ConnectFailed /\ cret = "mount share") =>
           tcp = "closed" /\ released = <<"logoff", "close">>
    /\ (cpc = "returned" /\ cret = "") => tcp = "open" /\ released = <<>>
    /\ cpc = "cleaned" => tcp = "closed" /\ released = <<"umount", "logoff", "close">>
    /\ cpc = "listed" => tcp # "open"
    /\ (cpc = "listed" /\ dret = "") => tcp = "closed" /\ released = <<"logoff", "close">>

\* a connection was opened, the mount failed, and connect has returned
C28_Witness ==
    /\ ConnectFailed
    /\ cret = "mount share"
    /\ \E i \in 1..Len(dialed) : dialed[i].ok
    /\ released = <<"logoff", "close">>

(***************************************************************************)
(* Termination of resolveHost                                              *)
(***************************************************************************)

\* C29: every resolveHost call eventually returns, given that the clock
\* advances and each system-resolver lookup returns: the read loop of
\* lookupLLMNR ends at its socket deadline however many datagrams arrive.
C29_Returns == <>(pc = "done")

\* resolveHost has returned after a read loop that read MaxDatagrams
\* datagrams and more, and was ended by the socket deadline
C29_Witness ==
    /\ pc = "done"
    /\ nread = MaxDatagrams
    /\ Len(calls) = 4
    /\ calls[4].end = sockDeadline
    /\ conn = "closed"

=============================================================================
